---- MODULE Spec2Model ----
(***************************************************************************)
(* A model of the snarkVM stack executor (Stack::evaluate_closure,         *)
(* Stack::evaluate_function, Stack::authorize) and of the binary codec of  *)
(* the bytecode Instruction enum.                                          *)
(*                                                                         *)
(* A call is a frame on `stack`; each step of evaluate_function or         *)
(* evaluate_closure is one action on the top frame, in the order of the    *)
(* source.  Authorizations live in the heap `auths` (an Authorization is   *)
(* an Arc<RwLock<VecDeque<Request>>>: clones share the queue, replicate()  *)
(* copies it).                                                             *)
(***************************************************************************)
EXTENDS Integers, Sequences, FiniteSets, TLC

VARIABLES
    auths,       \* heap of Authorizations: a sequence of request queues
    held,        \* index in auths of the Authorization the client holds
    recorded,    \* the requests the Authorization held when authorize returned
    authorized,  \* authorize has been called
    tampered,    \* the held Authorization was altered after authorize
    stack,       \* the frames of the calls in flight, innermost last
    result,      \* what the last top-level call returned
    log,         \* the steps of the current top-level call, in order
    retrieved,   \* the Requests retrieved (next or peek_next) in that call
    signed,      \* the Requests signed for nested calls during authorize
    nonce,       \* the rng state of Request::sign
    instr,       \* codec: the instruction under test
    bytes,       \* codec: the bytes written by write_le
    decoded,     \* codec: what read_le returned
    rewritten,   \* codec: the bytes written from the decoded instruction
    cpc,         \* codec: position of the round trip
    source,      \* parser: the characters given to Instruction::parse
    parsed,      \* parser: what Instruction::parse returned
    ppc,         \* parser: position
    memory,      \* bytecode: the Memory of the instruction and the instruction
    outcome,     \* bytecode: how Instruction::evaluate ended
    mpc,         \* bytecode: position
    block,       \* block: the Block under test
    blockBytes,  \* block: the bytes written by Block::write_le
    blockRead,   \* block: what Block::read_le returned
    bpc,         \* block: position
    factors,     \* group: the base, the scalar and their modes
    product,     \* group: the values ejected by a * b and a *= b
    gpc,         \* group: position
    circuit,     \* boolean: the counts of the circuit and its Booleans
    bitsLE,      \* boolean: what to_bits_le returned, and the counts of its scope
    record,      \* record: the EncryptedRecord or the record under test
    recordOut,   \* record: what the operation on it returned
    fee,         \* fee: the Fee under test
    feeOut,      \* fee: what amount and is_zero returned
    parked,      \* the transactions that are not running: their state
    supplied     \* authorize: the stack, the function name and the inputs given to it

execVars == <<auths, held, recorded, authorized, tampered, stack, result, log,
              retrieved, signed, nonce>>

codecVars == <<instr, bytes, decoded, rewritten, cpc>>

parseVars == <<source, parsed, ppc>>

memoryVars == <<memory, outcome, mpc>>

blockVars == <<block, blockBytes, blockRead, bpc>>

groupVars == <<factors, product, gpc>>

booleanVars == <<circuit, bitsLE>>

recordVars == <<record, recordOut>>

feeVars == <<fee, feeOut>>

\* What every step of the components above leaves alone.
laterVars == <<booleanVars, recordVars, feeVars, parked, supplied>>

vars == <<execVars, codecVars, parseVars, memoryVars, blockVars, groupVars, laterVars>>

\* What the steps of one component leave alone.
notExec == <<codecVars, parseVars, memoryVars, blockVars, groupVars, laterVars>>

notCodec == <<execVars, parseVars, memoryVars, blockVars, groupVars, laterVars>>

notParse == <<execVars, codecVars, memoryVars, blockVars, groupVars, laterVars>>

notMemory == <<execVars, codecVars, parseVars, blockVars, groupVars, laterVars>>

notBlock == <<execVars, codecVars, parseVars, memoryVars, groupVars, laterVars>>

notGroup == <<execVars, codecVars, parseVars, memoryVars, blockVars, laterVars>>

earlierVars == <<execVars, codecVars, parseVars, memoryVars, blockVars, groupVars>>

notBoolean == <<earlierVars, recordVars, feeVars, parked, supplied>>

notRecord == <<earlierVars, booleanVars, feeVars, parked, supplied>>

notFee == <<earlierVars, booleanVars, recordVars, parked, supplied>>

(***************************************************************************)
(* Bounds and constants                                                    *)
(***************************************************************************)

\* The values of the field are 0 .. FieldP-1; arithmetic is modulo FieldP.
FieldP == 2

\* N::ID, the network the stack runs on.
NetworkID == 3

\* The address of the private key that signs every Request.
SignerAddress == 201

(***************************************************************************)
(* Values                                                                  *)
(***************************************************************************)

FieldVal(n) == [t |-> "field", v |-> n]

BoolVal == [t |-> "boolean", v |-> 1]

AddressVal(a) == [t |-> "address", v |-> a]

FieldValues == {FieldVal(n) : n \in 0 .. FieldP - 1}

\* Every declared register of the programs below has type field.
Values == FieldValues \cup {BoolVal}

\* All sequences over S of length 0 .. n.
RECURSIVE SeqsUpTo(_, _)
SeqsUpTo(S, n) ==
    IF n = 0 THEN {<<>>}
    ELSE LET shorter == SeqsUpTo(S, n - 1)
         IN  shorter \cup {Append(s, x) : s \in {q \in shorter : Len(q) = n - 1}, x \in S}

(***************************************************************************)
(* Programs: read-only function and closure definitions                    *)
(***************************************************************************)

Instr(text, opc, args, dest, callee) ==
    [text |-> text, opc |-> opc, args |-> args, dest |-> dest, callee |-> callee]

RegisterOperand(r) == [kind |-> "Register", reg |-> r, lit |-> 0]

LiteralOperand(n) == [kind |-> "Literal", reg |-> 0, lit |-> n]

ProgramIDOperand == [kind |-> "ProgramID", reg |-> 0, lit |-> 0]

CallerOperand == [kind |-> "Caller", reg |-> 0, lit |-> 0]

Functions ==
    [ F |-> [ program |-> "p1.aleo", inputs |-> <<0, 1>>,
              instructions |->
                << Instr("call p2.aleo/G r0 into r2;", "call", <<0>>, <<2>>, "G"),
                   Instr("add r1 r2 into r3;", "add", <<1, 2>>, <<3>>, ""),
                   Instr("call p3.aleo/H r3 into r4;", "call", <<3>>, <<4>>, "H") >>,
              outputs |-> << RegisterOperand(4), CallerOperand >> ],
      G |-> [ program |-> "p2.aleo", inputs |-> <<0>>,
              instructions |->
                << Instr("inv r0 into r1;", "inv", <<0>>, <<1>>, ""),
                   Instr("call p3.aleo/H r1 into r2;", "call", <<1>>, <<2>>, "H") >>,
              outputs |-> << RegisterOperand(2) >> ],
      H |-> [ program |-> "p3.aleo", inputs |-> <<0>>,
              instructions |->
                << Instr("inv r0 into r1;", "inv", <<0>>, <<1>>, ""),
                   Instr("add r1 r0 into r2;", "add", <<1, 0>>, <<2>>, "") >>,
              outputs |-> << RegisterOperand(2) >> ],
      K |-> [ program |-> "p1.aleo", inputs |-> <<0>>,
              instructions |->
                << Instr("call c1 r0 r0 into r1;", "call", <<0, 0>>, <<1>>, "c1"),
                   Instr("add r1 r0 into r2;", "add", <<1, 0>>, <<2>>, "") >>,
              outputs |-> << RegisterOperand(2), LiteralOperand(1), ProgramIDOperand >> ],
      L |-> [ program |-> "p3.aleo", inputs |-> <<0>>,
              instructions |->
                << Instr("add r0 r0 into r1;", "add", <<0, 0>>, <<1>>, "") >>,
              outputs |-> << RegisterOperand(1), RegisterOperand(2) >> ] ]

Closures ==
    [ c1 |-> [ program |-> "p1.aleo", inputs |-> <<0, 1>>,
               instructions |->
                 << Instr("inv r0 into r2;", "inv", <<0>>, <<2>>, ""),
                    Instr("add r2 r1 into r3;", "add", <<2, 1>>, <<3>>, ""),
                    Instr("add r3 r3 into r4;", "add", <<3, 3>>, <<4>>, "") >>,
               outputs |-> << RegisterOperand(4) >> ],
      c2 |-> [ program |-> "p1.aleo", inputs |-> <<0, 1>>,
               instructions |->
                 << Instr("add r0 r1 into r2;", "add", <<0, 1>>, <<2>>, ""),
                    Instr("add r2 r1 into r0;", "add", <<2, 1>>, <<0>>, ""),
                    Instr("add r2 r2 into r3;", "add", <<2, 2>>, <<3>>, "") >>,
               outputs |-> << RegisterOperand(2) >> ],
      c3 |-> [ program |-> "p1.aleo", inputs |-> <<0>>,
               instructions |->
                 << Instr("add r0 r2 into r1;", "add", <<0, 2>>, <<1>>, ""),
                    Instr("add r0 r0 into r2;", "add", <<0, 0>>, <<2>>, "") >>,
               outputs |-> << RegisterOperand(1) >> ],
      c4 |-> [ program |-> "p1.aleo", inputs |-> <<0>>,
               instructions |->
                 << Instr("add r0 r0 into r1;", "add", <<0, 0>>, <<1>>, "") >>,
               outputs |-> << LiteralOperand(1), RegisterOperand(1), CallerOperand,
                              ProgramIDOperand, RegisterOperand(0) >> ],
      c5 |-> [ program |-> "p1.aleo", inputs |-> <<0>>,
               instructions |->
                 << Instr("add r0 r0 into r1;", "add", <<0, 0>>, <<1>>, "") >>,
               outputs |-> << RegisterOperand(1), RegisterOperand(3), LiteralOperand(0) >> ] ]

FunctionNames == DOMAIN Functions

ClosureNames == DOMAIN Closures

\* The closure evaluated at top level next to the authorizations.
ReplayClosures == {"c1"}

ProgramAddress(p) ==
    CASE p = "p1.aleo" -> 101
      [] p = "p2.aleo" -> 102
      [] OTHER -> 103

\* Stack::get_function: the function of that name in this stack's program.
HasFunction(self, name) == name \in FunctionNames /\ Functions[name].program = self

\* The definition a frame runs.
Definition(f) == IF f.kind = "evaluate_closure" THEN Closures[f.fn] ELSE Functions[f.fn]

(***************************************************************************)
(* Requests, Authorizations and call stacks                                *)
(***************************************************************************)

InputTypes(def) == [i \in 1 .. Len(def.inputs) |-> "field"]

Conforms(inputs, types) ==
    /\ Len(inputs) = Len(types)
    /\ \A i \in 1 .. Len(inputs) : inputs[i].t = types[i]

\* Request::sign: the n-th Request signed carries its own tvk and tcm.
Sign(program, name, inputs, n) ==
    [ network_id |-> NetworkID, program_id |-> program, function_name |-> name,
      inputs |-> inputs, caller |-> SignerAddress,
      tvk |-> 2 * n, tcm |-> 2 * n + 1, sig |-> TRUE ]

\* Request::verify: the signature is valid and the inputs conform to the types.
RequestVerify(request, types) == request.sig /\ Conforms(request.inputs, types)

CallStack(mode, requests, auth) == [mode |-> mode, requests |-> requests, auth |-> auth]

Modes == {"Evaluate", "Execute", "Authorize"}

\* Authorization::next: pops the front Request, or fails on an empty queue.
AuthorizationNext(queue) ==
    IF queue = <<>>
    THEN [ok |-> FALSE, err |-> "No more requests in the authorization.",
          request |-> <<>>, rest |-> queue]
    ELSE [ok |-> TRUE, err |-> "", request |-> <<Head(queue)>>, rest |-> Tail(queue)]

\* Authorization::peek_next: the front Request; the queue is left as it is.
AuthorizationPeekNext(queue) ==
    IF queue = <<>>
    THEN [ok |-> FALSE, err |-> "Attempted to get index 0 in the authorization.",
          request |-> <<>>, rest |-> queue]
    ELSE [ok |-> TRUE, err |-> "", request |-> <<Head(queue)>>, rest |-> queue]

\* CallStack::replicate: the same mode over a copy of the Authorization.
Replicate(cs, heap) ==
    [call_stack |-> [cs EXCEPT !.auth = Len(heap) + 1],
     heap |-> Append(heap, heap[cs.auth])]

IllegalModeError ==
    "Illegal operation: call stack must be Evaluate or Execute in evaluate_function."

\* A retrieval that takes the Request destructively in Execute mode too, on the
\* call stack it was given.
RetrieveTakingInExecute(cs, heap) ==
    IF cs.mode \in {"Evaluate", "Execute"}
    THEN LET r == AuthorizationNext(heap[cs.auth])
         IN  [ok |-> r.ok, err |-> r.err, request |-> r.request, call_stack |-> cs,
              heap |-> [heap EXCEPT ![cs.auth] = r.rest], how |-> "next"]
    ELSE [ok |-> FALSE, err |-> IllegalModeError, request |-> <<>>, call_stack |-> cs,
          heap |-> heap, how |-> "none"]

\* A retrieval that only peeks in Evaluate mode.
RetrievePeekingInEvaluate(cs, heap) ==
    IF cs.mode \in {"Evaluate", "Execute"}
    THEN LET r == AuthorizationPeekNext(heap[cs.auth])
             c == IF cs.mode = "Execute" THEN Replicate(cs, heap)
                  ELSE [call_stack |-> cs, heap |-> heap]
         IN  IF r.ok
             THEN [ok |-> TRUE, err |-> "", request |-> r.request,
                   call_stack |-> c.call_stack, heap |-> c.heap, how |-> "peek_next"]
             ELSE [ok |-> FALSE, err |-> r.err, request |-> <<>>, call_stack |-> cs,
                   heap |-> heap, how |-> "peek_next"]
    ELSE [ok |-> FALSE, err |-> IllegalModeError, request |-> <<>>, call_stack |-> cs,
          heap |-> heap, how |-> "none"]

\* A retrieval that treats every mode but Execute as Evaluate.
RetrieveInAnyMode(cs, heap) ==
    IF cs.mode = "Execute"
    THEN LET r == AuthorizationPeekNext(heap[cs.auth])
             c == Replicate(cs, heap)
         IN  IF r.ok
             THEN [ok |-> TRUE, err |-> "", request |-> r.request,
                   call_stack |-> c.call_stack, heap |-> c.heap, how |-> "peek_next"]
             ELSE [ok |-> FALSE, err |-> r.err, request |-> <<>>, call_stack |-> cs,
                   heap |-> heap, how |-> "peek_next"]
    ELSE LET r == AuthorizationNext(heap[cs.auth])
         IN  [ok |-> r.ok, err |-> r.err, request |-> r.request, call_stack |-> cs,
              heap |-> [heap EXCEPT ![cs.auth] = r.rest], how |-> "next"]

\* A retrieval from the Authorization at the start of the memory, whichever
\* Authorization the call stack holds.
RetrieveFromFirstAuthorization(cs, heap) ==
    IF cs.mode \in {"Evaluate", "Execute"}
    THEN LET r == AuthorizationNext(heap[1])
         IN  [ok |-> r.ok, err |-> r.err, request |-> r.request, call_stack |-> cs,
              heap |-> [heap EXCEPT ![1] = r.rest], how |-> "next"]
    ELSE [ok |-> FALSE, err |-> IllegalModeError, request |-> <<>>, call_stack |-> cs,
          heap |-> heap, how |-> "none"]

\* evaluate_function, "Retrieve the next request, based on the call stack mode".
RetrieveNextRequest(cs, heap) ==
    CASE cs.mode = "Evaluate" ->
            LET r == AuthorizationNext(heap[cs.auth])
            IN  [ok |-> r.ok, err |-> r.err, request |-> r.request, call_stack |-> cs,
                 heap |-> [heap EXCEPT ![cs.auth] = r.rest], how |-> "next"]
      [] cs.mode = "Execute" ->
            LET r == AuthorizationPeekNext(heap[cs.auth])
                c == Replicate(cs, heap)
            IN  IF r.ok
                THEN [ok |-> TRUE, err |-> "", request |-> r.request,
                      call_stack |-> c.call_stack, heap |-> c.heap, how |-> "peek_next"]
                ELSE [ok |-> FALSE, err |-> r.err, request |-> <<>>, call_stack |-> cs,
                      heap |-> heap, how |-> "peek_next"]
      [] OTHER ->
            [ok |-> FALSE, err |-> IllegalModeError, request |-> <<>>, call_stack |-> cs,
             heap |-> heap, how |-> "none"]

(***************************************************************************)
(* Registers                                                               *)
(***************************************************************************)

RegisterName(r) == "r" \o ToString(r)

\* Registers::store: single assignment, and the value has the declared type.
RegistersStore(regs, r, value) ==
    IF r \in DOMAIN regs
    THEN [ok |-> FALSE, regs |-> regs,
          err |-> "Cannot write to " \o RegisterName(r) \o ", as it has already been written to"]
    ELSE IF value.t # "field"
    THEN [ok |-> FALSE, regs |-> regs,
          err |-> "Register " \o RegisterName(r) \o " expects a field, found a " \o value.t]
    ELSE [ok |-> TRUE, regs |-> regs @@ (r :> value), err |-> ""]

\* Registers::load of a register operand.
RegistersLoad(regs, r) ==
    IF r \in DOMAIN regs
    THEN [ok |-> TRUE, value |-> regs[r], err |-> ""]
    ELSE [ok |-> FALSE, value |-> FieldVal(0),
          err |-> "Failed to load " \o RegisterName(r)]

\* A loop over the inputs that goes on after a store that fails.
RECURSIVE StoreInputsIgnoringFailures(_, _, _, _)
StoreInputsIgnoringFailures(regs, registers, inputs, i) ==
    IF i > Len(registers)
    THEN [ok |-> TRUE, regs |-> regs, err |-> "", n |-> i - 1]
    ELSE LET s == RegistersStore(regs, registers[i], inputs[i])
         IN  StoreInputsIgnoringFailures(IF s.ok THEN s.regs ELSE regs, registers, inputs, i + 1)

\* try_for_each over the zipped input registers and inputs: stops at the first
\* store that fails.  n counts the stores made.
RECURSIVE StoreInputsFrom(_, _, _, _)
StoreInputsFrom(regs, registers, inputs, i) ==
    IF i > Len(registers)
    THEN [ok |-> TRUE, regs |-> regs, err |-> "", n |-> i - 1]
    ELSE LET s == RegistersStore(regs, registers[i], inputs[i])
         IN  IF s.ok THEN StoreInputsFrom(s.regs, registers, inputs, i + 1)
             ELSE [ok |-> FALSE, regs |-> regs, err |-> s.err, n |-> i - 1]

(***************************************************************************)
(* Instructions                                                            *)
(***************************************************************************)

Inverses(a) == {x \in 0 .. FieldP - 1 : (a * x) % FieldP = 1}

\* The arithmetic instructions: load the operands, compute, store the result.
EvaluateArithmetic(ins, regs) ==
    LET missing == {i \in 1 .. Len(ins.args) : ins.args[i] \notin DOMAIN regs}
    IN  IF missing # {}
        THEN [ok |-> FALSE, regs |-> regs,
              err |-> RegistersLoad(regs, ins.args[CHOOSE i \in missing : \A j \in missing : i <= j]).err]
        ELSE IF ins.opc = "inv"
        THEN LET a == regs[ins.args[1]].v
             IN  IF Inverses(a) = {}
                 THEN [ok |-> FALSE, regs |-> regs,
                       err |-> "Failed to invert " \o ToString(a)]
                 ELSE RegistersStore(regs, ins.dest[1],
                                     FieldVal(CHOOSE x \in Inverses(a) : TRUE))
        ELSE RegistersStore(regs, ins.dest[1],
                            FieldVal((regs[ins.args[1]].v + regs[ins.args[2]].v) % FieldP))

\* Storing the outputs of a call into the destination registers.
RECURSIVE StoreOutputsFrom(_, _, _, _)
StoreOutputsFrom(regs, dests, outputs, i) ==
    IF i > Len(dests)
    THEN [ok |-> TRUE, regs |-> regs, err |-> ""]
    ELSE LET s == RegistersStore(regs, dests[i], outputs[i])
         IN  IF s.ok THEN StoreOutputsFrom(s.regs, dests, outputs, i + 1) ELSE s

(***************************************************************************)
(* Frames                                                                  *)
(***************************************************************************)

NoRet == [ok |-> TRUE, err |-> "", outputs |-> <<>>, response |-> <<>>]

Failure(msg) == [ok |-> FALSE, err |-> msg, outputs |-> <<>>, response |-> <<>>]

NewFrame(id, kind, self, fn, cs, pc, inputs, caller, tvk, heap) ==
    [ id |-> id, kind |-> kind, self |-> self, fn |-> fn, cs |-> cs, pc |-> pc,
      req |-> <<>>, inputs |-> inputs, caller |-> caller, tvk |-> tvk,
      hasRegs |-> FALSE, regs |-> <<>>, rcaller |-> <<>>, rtvk |-> <<>>,
      ip |-> 1, ret |-> NoRet,
      entryAuth |-> cs.auth, pre |-> heap[cs.auth] ]

Fail(f, msg) == [f EXCEPT !.pc = "return", !.ret = Failure(msg)]

top == stack[Len(stack)]

SetTop(f) == [stack EXCEPT ![Len(stack)] = f]

Ev(c, e, ok, n, d) == [c |-> c, e |-> e, ok |-> ok, n |-> n, d |-> d]

InFrame(kind, pc) == stack # <<>> /\ top.kind = kind /\ top.pc = pc

NextId == Cardinality({i \in 1 .. Len(log) : log[i].e = "enter"}) + 1

(***************************************************************************)
(* Stack::evaluate_function, step by step                                  *)
(***************************************************************************)

\* Retrieve the next request, based on the call stack mode.
RetrieveRequest ==
    /\ InFrame("evaluate_function", "retrieve")
    /\ LET r == RetrieveNextRequest(top.cs, auths)
       IN  /\ auths' = r.heap
           /\ retrieved' = retrieved \o r.request
           /\ log' = Append(log, Ev(top.id, r.how, r.ok, Len(auths[top.cs.auth]), top.cs.mode))
           /\ stack' = SetTop(IF r.ok
                              THEN [top EXCEPT !.req = r.request, !.cs = r.call_stack,
                                               !.pc = "network"]
                              ELSE Fail(top, r.err))
    /\ UNCHANGED <<held, recorded, authorized, tampered, result, signed, nonce, notExec>>

NetworkMismatchError(found) ==
    "Network ID mismatch. Expected " \o ToString(NetworkID) \o ", but found " \o ToString(found)

\* A step that goes on to the lookup whatever the network id of the Request is.
CheckNetworkLenient ==
    /\ InFrame("evaluate_function", "network")
    /\ log' = Append(log, Ev(top.id, "network", top.req[1].network_id = NetworkID,
                             top.req[1].network_id, ""))
    /\ stack' = SetTop([top EXCEPT !.pc = "lookup"])
    /\ UNCHANGED <<auths, held, recorded, authorized, tampered, result, retrieved, signed,
                   nonce, notExec>>

\* Ensure the network ID matches.
CheckNetwork ==
    /\ InFrame("evaluate_function", "network")
    /\ LET ok == top.req[1].network_id = NetworkID
       IN  /\ log' = Append(log, Ev(top.id, "network", ok, top.req[1].network_id, ""))
           /\ stack' = SetTop(IF ok THEN [top EXCEPT !.pc = "lookup"]
                              ELSE Fail(top, NetworkMismatchError(top.req[1].network_id)))
    /\ UNCHANGED <<auths, held, recorded, authorized, tampered, result, retrieved, signed,
                   nonce, notExec>>

\* Retrieve the function, inputs, caller and transition view key.
LookupFunction ==
    /\ InFrame("evaluate_function", "lookup")
    /\ LET name == top.req[1].function_name
           ok == HasFunction(top.self, name)
       IN  /\ log' = Append(log, Ev(top.id, "lookup", ok, 0, name))
           /\ stack' = SetTop(IF ok
                              THEN [top EXCEPT !.fn = name, !.inputs = top.req[1].inputs,
                                               !.caller = top.req[1].caller,
                                               !.tvk = top.req[1].tvk, !.pc = "arity"]
                              ELSE Fail(top, "Function " \o name \o " is not defined."))
    /\ UNCHANGED <<auths, held, recorded, authorized, tampered, result, retrieved, signed,
                   nonce, notExec>>

FunctionArityError(name, program, expected, found) ==
    "Function " \o name \o " in the program " \o program \o " expects "
        \o ToString(expected) \o " inputs, but " \o ToString(found) \o " were provided."

\* An input count check that lets every count pass.
FunctionArityUnchecked(f) == ""

\* The outcome of the input count check of evaluate_function: "" when it passes.
FunctionArityCheck(f) ==
    IF Len(Functions[f.fn].inputs) # Len(f.inputs)
    THEN FunctionArityError(f.fn, f.self, Len(Functions[f.fn].inputs), Len(f.inputs))
    ELSE ""

\* Ensure the number of inputs matches.
CheckInputCount ==
    /\ InFrame("evaluate_function", "arity")
    /\ LET e == FunctionArityCheck(top)
       IN  /\ log' = Append(log, Ev(top.id, "arity", e = "", Len(top.inputs), e))
           /\ stack' = SetTop(IF e = "" THEN [top EXCEPT !.pc = "registers"]
                              ELSE Fail(top, e))
    /\ UNCHANGED <<auths, held, recorded, authorized, tampered, result, retrieved, signed,
                   nonce, notExec>>

\* Registers::new, set_caller, set_tvk.
WithRegisters(f) ==
    [f EXCEPT !.hasRegs = TRUE, !.regs = <<>>, !.rcaller = <<f.caller>>, !.rtvk = <<f.tvk>>]

\* An evaluate_function that stores the inputs without verifying the Request.
StepAfterRegistersUnverified == "store"

\* The step that follows the construction of the Register File of a function.
StepAfterRegisters == "verify"

\* An evaluate_function that goes on to its instructions without storing the inputs.
StepAfterVerifyWithoutStore == "instructions"

\* The step that follows the verification of the Request.
StepAfterVerify == "store"

\* Initialize the registers, set the transition caller and view key.
InitializeRegisters ==
    /\ InFrame("evaluate_function", "registers")
    /\ log' = Append(log, Ev(top.id, "registers", TRUE, 0, ""))
    /\ stack' = SetTop([WithRegisters(top) EXCEPT !.pc = StepAfterRegisters])
    /\ UNCHANGED <<auths, held, recorded, authorized, tampered, result, retrieved, signed,
                   nonce, notExec>>

\* Ensure the request is well-formed.
VerifyRequest ==
    /\ InFrame("evaluate_function", "verify")
    /\ LET ok == RequestVerify(top.req[1], InputTypes(Functions[top.fn]))
       IN  /\ log' = Append(log, Ev(top.id, "verify", ok, 0, ""))
           /\ stack' = SetTop(IF ok THEN [top EXCEPT !.pc = StepAfterVerify]
                              ELSE Fail(top, "Request is invalid"))
    /\ UNCHANGED <<auths, held, recorded, authorized, tampered, result, retrieved, signed,
                   nonce, notExec>>

StoreEvents(id, s) ==
    [i \in 1 .. s.n |-> Ev(id, "store", TRUE, i, "")]
        \o (IF s.ok THEN <<>> ELSE <<Ev(id, "store", FALSE, s.n + 1, s.err)>>)

\* Store the inputs (evaluate_function and evaluate_closure alike).
StoreInputs ==
    /\ stack # <<>> /\ top.pc = "store"
    /\ LET s == StoreInputsFrom(top.regs, Definition(top).inputs, top.inputs, 1)
       IN  /\ log' = log \o StoreEvents(top.id, s)
           /\ stack' = SetTop(IF s.ok
                              THEN [top EXCEPT !.regs = s.regs, !.pc = "instructions"]
                              ELSE Fail(top, s.err))
    /\ UNCHANGED <<auths, held, recorded, authorized, tampered, result, retrieved, signed,
                   nonce, notExec>>

InstructionError(text, cause) ==
    "Failed to evaluate instruction (" \o text \o "): " \o cause

\* A loop that skips a failing instruction and goes on with the next one.
AfterInstructionSkipping(f, r) ==
    IF r.ok
    THEN [f EXCEPT !.regs = r.regs, !.ip = @ + 1]
    ELSE [f EXCEPT !.ip = @ + 1]

\* The body of the instruction loop: r is what instruction.evaluate returned.
AfterInstruction(f, r) ==
    IF r.ok
    THEN [f EXCEPT !.regs = r.regs, !.ip = @ + 1]
    ELSE Fail(f, InstructionError(Definition(f).instructions[f.ip].text, r.err))

CurrentInstruction(f) == Definition(f).instructions[f.ip]

AtInstruction ==
    /\ stack # <<>> /\ top.pc = "instructions"
    /\ top.ip <= Len(Definition(top).instructions)

\* Evaluate an arithmetic instruction.
EvaluateInstruction ==
    /\ AtInstruction
    /\ CurrentInstruction(top).opc # "call"
    /\ LET r == EvaluateArithmetic(CurrentInstruction(top), top.regs)
       IN  /\ log' = Append(log, Ev(top.id, "eval", r.ok, top.ip, r.err))
           /\ stack' = SetTop(AfterInstruction(top, r))
    /\ UNCHANGED <<auths, held, recorded, authorized, tampered, result, retrieved, signed,
                   nonce, notExec>>

\* The values of the operands of a call, when every one of them is set.
CallInputs(ins, regs) == [i \in 1 .. Len(ins.args) |-> regs[ins.args[i]]]

UnsetOperands(ins, regs) == {i \in 1 .. Len(ins.args) : ins.args[i] \notin DOMAIN regs}

FirstUnsetError(ins, regs) ==
    RegistersLoad(regs, ins.args[CHOOSE i \in UnsetOperands(ins, regs) :
                                    \A j \in UnsetOperands(ins, regs) : i <= j]).err

\* The frame of a nested call made by an evaluate_* frame: a closure runs
\* evaluate_closure on the operands, a function runs evaluate_function on the
\* call stack of the caller's registers.
CalleeFrame(f, ins, id, heap) ==
    IF ins.callee \in ClosureNames
    THEN NewFrame(id, "evaluate_closure", f.self, ins.callee, f.cs, "c_arity",
                  CallInputs(ins, f.regs), f.rcaller[1], f.rtvk[1], heap)
    ELSE NewFrame(id, "evaluate_function", Functions[ins.callee].program, "", f.cs,
                  "retrieve", <<>>, 0, 0, heap)

\* Evaluate a call instruction: the callee runs to completion in its own frame.
CallEvaluate ==
    /\ AtInstruction
    /\ CurrentInstruction(top).opc = "call"
    /\ \/ top.kind # "execute_function"
       \/ CurrentInstruction(top).callee \in ClosureNames
    /\ LET ins == CurrentInstruction(top)
       IN  IF UnsetOperands(ins, top.regs) # {}
           THEN /\ log' = Append(log, Ev(top.id, "eval", FALSE, top.ip, FirstUnsetError(ins, top.regs)))
                /\ stack' = SetTop(AfterInstruction(top,
                        [ok |-> FALSE, regs |-> top.regs,
                         err |-> FirstUnsetError(ins, top.regs)]))
           ELSE /\ log' = log \o <<Ev(top.id, "call", TRUE, top.ip, ins.callee),
                                   Ev(NextId, "enter", TRUE, top.id,
                                      CalleeFrame(top, ins, NextId, auths).kind)>>
                /\ stack' = Append(stack, CalleeFrame(top, ins, NextId, auths))
    /\ UNCHANGED <<auths, held, recorded, authorized, tampered, result, retrieved, signed,
                   nonce, notExec>>

\* A nested call returns: its outputs are stored in the destination registers
\* of the caller's call instruction, or its error fails that instruction.
ReturnToCaller ==
    /\ Len(stack) >= 2 /\ top.pc = "return"
    /\ LET parent == stack[Len(stack) - 1]
           ins == CurrentInstruction(parent)
           r == IF top.ret.ok
                THEN StoreOutputsFrom(parent.regs, ins.dest, top.ret.outputs, 1)
                ELSE [ok |-> FALSE, regs |-> parent.regs, err |-> top.ret.err]
       IN  /\ log' = log \o <<Ev(top.id, "return", top.ret.ok, 0, top.ret.err),
                              Ev(parent.id, "eval", r.ok, parent.ip, r.err)>>
           /\ stack' = Append(SubSeq(stack, 1, Len(stack) - 2), AfterInstruction(parent, r))
    /\ UNCHANGED <<auths, held, recorded, authorized, tampered, result, retrieved, signed,
                   nonce, notExec>>

\* Resolve one output operand.
LoadOutput(f, operand) ==
    CASE operand.kind = "Literal" -> [ok |-> TRUE, value |-> FieldVal(operand.lit), err |-> ""]
      [] operand.kind = "Register" -> RegistersLoad(f.regs, operand.reg)
      [] operand.kind = "ProgramID" ->
            [ok |-> TRUE, value |-> AddressVal(ProgramAddress(Definition(f).program)), err |-> ""]
      [] OTHER ->
            IF f.rcaller = <<>>
            THEN [ok |-> FALSE, value |-> FieldVal(0), err |-> "Caller address is not set"]
            ELSE [ok |-> TRUE, value |-> AddressVal(f.rcaller[1]), err |-> ""]

\* A collection of the outputs that leaves out the ones that fail to load.
RECURSIVE LoadOutputsSkippingFailures(_, _, _)
LoadOutputsSkippingFailures(f, operands, i) ==
    IF i > Len(operands)
    THEN [ok |-> TRUE, outputs |-> <<>>, err |-> ""]
    ELSE LET o == LoadOutput(f, operands[i])
             rest == LoadOutputsSkippingFailures(f, operands, i + 1)
         IN  [ok |-> TRUE, err |-> "",
              outputs |-> (IF o.ok THEN <<o.value>> ELSE <<>>) \o rest.outputs]

\* Load the outputs in declaration order; the first failure is the result.
RECURSIVE LoadOutputsFrom(_, _, _)
LoadOutputsFrom(f, operands, i) ==
    IF i > Len(operands)
    THEN [ok |-> TRUE, outputs |-> <<>>, err |-> ""]
    ELSE LET o == LoadOutput(f, operands[i])
             rest == LoadOutputsFrom(f, operands, i + 1)
         IN  IF ~o.ok THEN [ok |-> FALSE, outputs |-> <<>>, err |-> o.err]
             ELSE IF ~rest.ok THEN rest
             ELSE [ok |-> TRUE, outputs |-> <<o.value>> \o rest.outputs, err |-> ""]

\* Load the outputs: a closure returns them, a function goes on to its Response.
LoadOutputs ==
    /\ stack # <<>> /\ top.pc = "instructions"
    /\ top.ip > Len(Definition(top).instructions)
    /\ LET o == LoadOutputsFrom(top, Definition(top).outputs, 1)
       IN  /\ log' = Append(log, Ev(top.id, "outputs", o.ok, Len(o.outputs), o.err))
           /\ stack' = SetTop(
                IF ~o.ok THEN Fail(top, o.err)
                ELSE IF top.kind = "evaluate_closure"
                THEN [top EXCEPT !.pc = "return", !.ret = [NoRet EXCEPT !.outputs = o.outputs]]
                ELSE [top EXCEPT !.pc = "response", !.ret = [NoRet EXCEPT !.outputs = o.outputs]])
    /\ UNCHANGED <<auths, held, recorded, authorized, tampered, result, retrieved, signed,
                   nonce, notExec>>

OutputRegisters(operands) ==
    [i \in 1 .. Len(operands) |->
        IF operands[i].kind = "Register" THEN <<operands[i].reg>> ELSE <<>>]

\* Response::new on the Request of the call.
ResponseNew(f) ==
    [ network_id |-> f.req[1].network_id, program_id |-> f.self,
      function_name |-> f.fn, num_inputs |-> Len(f.req[1].inputs),
      tvk |-> f.req[1].tvk, tcm |-> f.req[1].tcm, outputs |-> f.ret.outputs,
      output_registers |-> OutputRegisters(Functions[f.fn].outputs) ]

\* Map the output operands to registers and compute the response.
ComputeResponse ==
    /\ stack # <<>> /\ top.pc = "response"
    /\ log' = Append(log, Ev(top.id, "response", TRUE, 0, ""))
    /\ stack' = SetTop([top EXCEPT !.pc = "return", !.ret.response = <<ResponseNew(top)>>])
    /\ UNCHANGED <<auths, held, recorded, authorized, tampered, result, retrieved, signed,
                   nonce, notExec>>

(***************************************************************************)
(* Stack::evaluate_closure                                                 *)
(***************************************************************************)

ClosureArityError(expected, found) ==
    "Expected " \o ToString(expected) \o " inputs, found " \o ToString(found)

\* The outcome of the input count check of evaluate_closure: "" when it passes.
ClosureArityCheck(f) ==
    IF Len(Closures[f.fn].inputs) # Len(f.inputs)
    THEN ClosureArityError(Len(Closures[f.fn].inputs), Len(f.inputs))
    ELSE ""

\* An input count check that first takes the next Request of the Authorization.
ClosureCheckInputCountTakingRequest ==
    /\ InFrame("evaluate_closure", "c_arity")
    /\ auths' = [auths EXCEPT ![top.cs.auth] = IF @ = <<>> THEN @ ELSE Tail(@)]
    /\ LET e == ClosureArityCheck(top)
       IN  /\ log' = Append(log, Ev(top.id, "arity", e = "", Len(top.inputs), e))
           /\ stack' = SetTop(IF e = "" THEN [top EXCEPT !.pc = "c_registers"]
                              ELSE Fail(top, e))
    /\ UNCHANGED <<held, recorded, authorized, tampered, result, retrieved, signed,
                   nonce, notExec>>

\* Ensure the number of inputs matches the number of input statements.
ClosureCheckInputCount ==
    /\ InFrame("evaluate_closure", "c_arity")
    /\ LET e == ClosureArityCheck(top)
       IN  /\ log' = Append(log, Ev(top.id, "arity", e = "", Len(top.inputs), e))
           /\ stack' = SetTop(IF e = "" THEN [top EXCEPT !.pc = "c_registers"]
                              ELSE Fail(top, e))
    /\ UNCHANGED <<auths, held, recorded, authorized, tampered, result, retrieved, signed,
                   nonce, notExec>>

\* Initialize the registers, set the transition caller and view key.
ClosureInitializeRegisters ==
    /\ InFrame("evaluate_closure", "c_registers")
    /\ log' = Append(log, Ev(top.id, "registers", TRUE, 0, ""))
    /\ stack' = SetTop([WithRegisters(top) EXCEPT !.pc = "store"])
    /\ UNCHANGED <<auths, held, recorded, authorized, tampered, result, retrieved, signed,
                   nonce, notExec>>

(***************************************************************************)
(* Stack::execute_function under Authorize mode                            *)
(***************************************************************************)

\* The checks and the input stores of execute_function on the Request popped
\* from the call stack.
ExecutePreludeOutcome(f, request) ==
    IF request.network_id # NetworkID
    THEN Fail(f, NetworkMismatchError(request.network_id))
    ELSE IF ~HasFunction(f.self, request.function_name)
    THEN Fail(f, "Function " \o request.function_name \o " is not defined.")
    ELSE LET function == Functions[request.function_name]
             g == [f EXCEPT !.fn = request.function_name, !.req = <<request>>,
                            !.inputs = request.inputs, !.caller = request.caller,
                            !.tvk = request.tvk]
             s == StoreInputsFrom(<<>>, function.inputs, request.inputs, 1)
         IN  IF Len(function.inputs) # Len(request.inputs)
             THEN Fail(g, FunctionArityError(g.fn, g.self, Len(function.inputs),
                                             Len(request.inputs)))
             ELSE IF ~RequestVerify(request, InputTypes(function))
             THEN Fail(WithRegisters(g), "Request is invalid")
             ELSE IF ~s.ok THEN Fail(WithRegisters(g), s.err)
             ELSE [WithRegisters(g) EXCEPT !.regs = s.regs, !.pc = "instructions"]

\* execute_function pops its Request from the requests of the call stack.
ExecutePrelude ==
    /\ InFrame("execute_function", "x_prelude")
    /\ LET requests == top.cs.requests
           popped == [top EXCEPT !.cs.requests = SubSeq(requests, 1, Len(requests) - 1)]
       IN  /\ log' = Append(log, Ev(top.id, "pop", requests # <<>>, Len(requests), ""))
           /\ stack' = SetTop(IF requests = <<>>
                              THEN Fail(top, "No more requests on the stack")
                              ELSE ExecutePreludeOutcome(popped, requests[Len(requests)]))
    /\ UNCHANGED <<auths, held, recorded, authorized, tampered, result, retrieved, signed,
                   nonce, notExec>>

\* A call of a function under Authorize mode: sign a Request for it, push it on
\* the call stack and on the Authorization, and execute the function.
ExecuteCall ==
    /\ AtInstruction
    /\ top.kind = "execute_function"
    /\ CurrentInstruction(top).opc = "call"
    /\ CurrentInstruction(top).callee \in FunctionNames
    /\ LET ins == CurrentInstruction(top)
           callee == Functions[ins.callee]
           request == Sign(callee.program, ins.callee, CallInputs(ins, top.regs), nonce)
           bad == IF UnsetOperands(ins, top.regs) # {} THEN FirstUnsetError(ins, top.regs)
                  ELSE IF ~Conforms(CallInputs(ins, top.regs), InputTypes(callee))
                  THEN "Failed to sign the request"
                  ELSE ""
       IN  IF bad # ""
           THEN /\ log' = Append(log, Ev(top.id, "eval", FALSE, top.ip, bad))
                /\ stack' = SetTop(AfterInstruction(top,
                        [ok |-> FALSE, regs |-> top.regs, err |-> bad]))
                /\ UNCHANGED <<auths, signed, nonce>>
           ELSE /\ log' = log \o <<Ev(top.id, "call", TRUE, top.ip, ins.callee),
                                   Ev(NextId, "enter", TRUE, top.id, "execute_function")>>
                /\ nonce' = nonce + 1
                /\ signed' = Append(signed, request)
                /\ auths' = [auths EXCEPT ![top.cs.auth] = Append(@, request)]
                /\ stack' = Append(stack,
                        NewFrame(NextId, "execute_function", callee.program, "",
                                 [top.cs EXCEPT !.requests = Append(@, request)],
                                 "x_prelude", <<>>, 0, 0, auths'))
    /\ UNCHANGED <<held, recorded, authorized, tampered, result, retrieved, notExec>>

(***************************************************************************)
(* Stack::authorize                                                        *)
(***************************************************************************)

\* An Authorization that starts empty.
AuthorizeSeedEmpty(request) == <<>>

\* Authorization::new(&[request.clone()]).
AuthorizeSeed(request) == <<request>>

\* A check that compares the declared inputs with the inputs supplied.
AuthorizeInputCountCheckOfSupplied(name, program, function, inputs) ==
    IF Len(function.inputs) # Len(inputs)
    THEN "Function " \o name \o " in program " \o program \o " expects "
            \o ToString(Len(function.inputs)) \o " inputs, but "
            \o ToString(Len(inputs)) \o " types were found."
    ELSE ""

\* authorize: "Ensure the number of inputs matches the number of input types".
AuthorizeInputCountCheck(name, program, function, inputs) ==
    IF Len(function.inputs) # Len(InputTypes(function))
    THEN "Function " \o name \o " in program " \o program \o " expects "
            \o ToString(Len(function.inputs)) \o " inputs, but "
            \o ToString(Len(InputTypes(function))) \o " types were found."
    ELSE ""

\* What authorize returns before it runs the function: "" when it goes on.
AuthorizeError(self, name, inputs) ==
    IF ~HasFunction(self, name) THEN "Function " \o name \o " is not defined."
    ELSE IF AuthorizeInputCountCheck(name, self, Functions[name], inputs) # ""
    THEN AuthorizeInputCountCheck(name, self, Functions[name], inputs)
    ELSE IF ~Conforms(inputs, InputTypes(Functions[name]))
    THEN "Failed to sign the request"
    ELSE ""

Outcome(op, mode, ret, pre, post) ==
    [op |-> op, mode |-> mode, ret |-> ret, pre |-> pre, post |-> post]

\* authorize up to its call of execute_function.
Authorize(self, name, inputs) ==
    /\ stack = <<>> /\ ~authorized
    /\ authorized' = TRUE
    /\ LET e == AuthorizeError(self, name, inputs)
           request == Sign(self, name, inputs, nonce)
       IN  IF e # ""
           THEN /\ result' = <<Outcome("authorize", "Authorize", Failure(e),
                                       auths[held], auths[held])>>
                /\ log' = <<>>
                /\ UNCHANGED <<auths, stack, nonce>>
           ELSE /\ nonce' = nonce + 1
                /\ auths' = Append(auths, AuthorizeSeed(request))
                /\ log' = <<Ev(1, "enter", TRUE, 0, "execute_function")>>
                /\ stack' = <<NewFrame(1, "execute_function", self, "",
                                       CallStack("Authorize", <<request>>, Len(auths) + 1),
                                       "x_prelude", <<>>, 0, 0, auths')>>
                /\ result' = <<>>
    /\ retrieved' = <<>>
    /\ signed' = <<>>
    /\ UNCHANGED <<held, recorded, tampered, notExec>>

\* authorize returns the Authorization, or the error of execute_function.
ReturnFromAuthorize ==
    /\ Len(stack) = 1 /\ top.pc = "return" /\ top.kind = "execute_function"
    /\ log' = Append(log, Ev(top.id, "return", top.ret.ok, 0, top.ret.err))
    /\ stack' = <<>>
    /\ held' = 1
    /\ auths' = IF top.ret.ok THEN <<auths[top.entryAuth]>> ELSE <<auths[held]>>
    /\ recorded' = IF top.ret.ok THEN auths[top.entryAuth] ELSE recorded
    /\ result' = <<Outcome("authorize", "Authorize",
                           IF top.ret.ok THEN NoRet ELSE top.ret, top.pre, auths'[1])>>
    /\ UNCHANGED <<authorized, tampered, retrieved, signed, nonce, notExec>>

(***************************************************************************)
(* The callers of the stack                                                *)
(***************************************************************************)

\* A client signs one Request and wraps it in an Authorization of its own,
\* without running authorize.
NewAuthorization(name, inputs) ==
    /\ stack = <<>> /\ ~authorized
    /\ Conforms(inputs, InputTypes(Functions[name]))
    /\ authorized' = TRUE
    /\ auths' = [auths EXCEPT ![held] = <<Sign(Functions[name].program, name, inputs, nonce)>>]
    /\ nonce' = nonce + 1
    /\ UNCHANGED <<held, recorded, tampered, stack, result, log, retrieved, signed, notExec>>

\* The stack of the program the front Request names.
TopLevelStack ==
    IF auths[held] # <<>> THEN auths[held][1].program_id ELSE "p1.aleo"

\* A top-level evaluate_function in the given call stack mode.
CallEvaluateFunction(mode) ==
    /\ stack = <<>>
    /\ stack' = <<NewFrame(1, "evaluate_function", TopLevelStack, "",
                           CallStack(mode, <<>>, held), "retrieve", <<>>, 0, 0, auths)>>
    /\ log' = <<Ev(1, "enter", TRUE, 0, "evaluate_function")>>
    /\ retrieved' = <<>>
    /\ result' = <<>>
    /\ UNCHANGED <<auths, held, recorded, authorized, tampered, signed, nonce, notExec>>

\* A top-level evaluate_closure on the given inputs.
CallEvaluateClosure(closure, inputs, mode) ==
    /\ stack = <<>>
    /\ stack' = <<NewFrame(1, "evaluate_closure", Closures[closure].program, closure,
                           CallStack(mode, <<>>, held), "c_arity", inputs,
                           SignerAddress, 0, auths)>>
    /\ log' = <<Ev(1, "enter", TRUE, 0, "evaluate_closure")>>
    /\ retrieved' = <<>>
    /\ result' = <<>>
    /\ UNCHANGED <<auths, held, recorded, authorized, tampered, signed, nonce, notExec>>

\* The top-level call returns; the replicas of the Authorization are dropped.
ReturnTopLevel ==
    /\ Len(stack) = 1 /\ top.pc = "return" /\ top.kind # "execute_function"
    /\ log' = Append(log, Ev(top.id, "return", top.ret.ok, 0, top.ret.err))
    /\ stack' = <<>>
    /\ result' = <<Outcome(top.kind, top.cs.mode, top.ret, top.pre, auths[held])>>
    /\ auths' = <<auths[held]>>
    /\ held' = 1
    /\ UNCHANGED <<recorded, authorized, tampered, retrieved, signed, nonce, notExec>>

\* A Request of the Authorization as altered by whoever hands it to the stack.
Tampered(request, how) ==
    CASE how = "network" -> [request EXCEPT !.network_id = NetworkID + 1]
      [] how = "signature" -> [request EXCEPT !.sig = FALSE]
      [] how = "drop" -> [request EXCEPT !.inputs = SubSeq(@, 1, Len(@) - 1)]
      [] how = "add" -> [request EXCEPT !.inputs = Append(@, FieldVal(0))]
      [] how = "type" -> [request EXCEPT !.inputs = [@ EXCEPT ![1] = BoolVal]]
      [] OTHER -> [request EXCEPT !.function_name = "Z"]

TamperKinds == {"network", "signature", "drop", "add", "type", "name"}

\* The Authorization returned by authorize is altered before it is replayed.
Tamper(i, how) ==
    /\ stack = <<>> /\ ~tampered
    /\ recorded # <<>> /\ auths[held] = recorded
    /\ i \in 1 .. Len(auths[held])
    /\ tampered' = TRUE
    /\ auths' = [auths EXCEPT ![held][i] = Tampered(@, how)]
    /\ UNCHANGED <<held, recorded, authorized, stack, result, log, retrieved, signed, nonce,
                   notExec>>

(***************************************************************************)
(* The executor                                                            *)
(***************************************************************************)

CodecIdle ==
    /\ instr = <<>> /\ bytes = <<>> /\ decoded = <<>> /\ rewritten = <<>> /\ cpc = "idle"

ParseIdle == source = <<>> /\ parsed = <<>> /\ ppc = "idle"

MemoryIdle == memory = <<>> /\ outcome = <<>> /\ mpc = "idle"

BlockIdle == block = <<>> /\ blockBytes = <<>> /\ blockRead = <<>> /\ bpc = "idle"

GroupIdle == factors = <<>> /\ product = <<>> /\ gpc = "idle"

BooleanIdle == circuit = <<>> /\ bitsLE = <<>>

RecordIdle == record = <<>> /\ recordOut = <<>>

FeeIdle == fee = <<>> /\ feeOut = <<>>

\* No transaction is parked and no component above is under test.
LaterIdle == BooleanIdle /\ RecordIdle /\ FeeIdle /\ parked = <<>> /\ supplied = <<>>

ExecIdle ==
    /\ auths = << <<>> >> /\ held = 1 /\ recorded = <<>> /\ authorized = FALSE
    /\ tampered = FALSE /\ stack = <<>> /\ result = <<>> /\ log = <<>>
    /\ retrieved = <<>> /\ signed = <<>> /\ nonce = 1

Init ==
    /\ auths = << <<>> >>
    /\ held = 1
    /\ recorded = <<>>
    /\ authorized = FALSE
    /\ tampered = FALSE
    /\ stack = <<>>
    /\ result = <<>>
    /\ log = <<>>
    /\ retrieved = <<>>
    /\ signed = <<>>
    /\ nonce = 1
    /\ CodecIdle /\ ParseIdle /\ MemoryIdle /\ BlockIdle /\ GroupIdle /\ LaterIdle

Next ==
    \/ \E name \in FunctionNames : \E self \in {Functions[name].program, "p1.aleo"} :
         \E inputs \in SeqsUpTo(Values, Len(Functions[name].inputs) + 1) :
            Authorize(self, name, inputs)
    \/ \E name \in FunctionNames :
         \E inputs \in SeqsUpTo(Values, Len(Functions[name].inputs)) :
            NewAuthorization(name, inputs)
    \/ ExecutePrelude
    \/ ExecuteCall
    \/ ReturnFromAuthorize
    \/ \E i \in 1 .. Len(auths[held]) : \E how \in TamperKinds : Tamper(i, how)
    \/ \E mode \in Modes : CallEvaluateFunction(mode)
    \/ \E closure \in ReplayClosures : \E mode \in Modes :
         \E inputs \in SeqsUpTo(Values, Len(Closures[closure].inputs) + 1) :
            CallEvaluateClosure(closure, inputs, mode)
    \/ RetrieveRequest
    \/ CheckNetwork
    \/ LookupFunction
    \/ CheckInputCount
    \/ InitializeRegisters
    \/ VerifyRequest
    \/ StoreInputs
    \/ EvaluateInstruction
    \/ CallEvaluate
    \/ ReturnToCaller
    \/ LoadOutputs
    \/ ComputeResponse
    \/ ClosureCheckInputCount
    \/ ClosureInitializeRegisters
    \/ ReturnTopLevel

Spec == Init /\ [][Next]_vars

(***************************************************************************)
(* Properties of the executor                                              *)
(***************************************************************************)

EvaluateKinds == {"evaluate_function", "evaluate_closure"}

FrameIndices == 1 .. Len(stack)

\* The positions in the log of the events e of call c.
Indices(c, e) == {i \in 1 .. Len(log) : log[i].c = c /\ log[i].e = e}

EventsOf(c) == {i \in 1 .. Len(log) : log[i].c = c}

\* The calls of the log that are evaluate_function or evaluate_closure calls.
EvaluateCalls ==
    {log[i].c : i \in {j \in 1 .. Len(log) : log[j].e = "enter" /\ log[j].d \in EvaluateKinds}}

FailedEvals(c) == {i \in Indices(c, "eval") : ~log[i].ok}

\* C1: the instructions of a call are evaluated in program order, and the
\* first one that fails ends the call: no later instruction of the call is
\* evaluated, no output is loaded, no Response is built, and the error of the
\* call is "Failed to evaluate instruction (<text>): <cause>" with the text of
\* that instruction and the error its evaluation returned.
C1_FirstFailureAborts ==
    /\ \A c \in EvaluateCalls :
          /\ \A i \in Indices(c, "eval") :
                log[i].n = Cardinality({j \in Indices(c, "eval") : j <= i})
          /\ \A i \in Indices(c, "call") :
                log[i].n = Cardinality({j \in Indices(c, "eval") : j < i}) + 1
          /\ \A i \in FailedEvals(c) :
                \A j \in EventsOf(c) : j > i => log[j].e = "return" /\ ~log[j].ok
    /\ \A k \in FrameIndices :
          stack[k].kind \in EvaluateKinds =>
             \A i \in FailedEvals(stack[k].id) :
                /\ stack[k].pc = "return"
                /\ stack[k].ret =
                      [ok |-> FALSE, outputs |-> <<>>, response |-> <<>>,
                       err |-> "Failed to evaluate instruction ("
                                  \o Definition(stack[k]).instructions[log[i].n].text
                                  \o "): " \o log[i].d]
    /\ (result # <<>> /\ result[1].op \in EvaluateKinds /\ FailedEvals(1) # {}) =>
          /\ ~result[1].ret.ok
          /\ result[1].ret.outputs = <<>>
          /\ result[1].ret.response = <<>>

\* An evaluate_function call has failed at an instruction that is not its last.
C1_Witness ==
    /\ stack # <<>> /\ top.kind = "evaluate_function" /\ top.pc = "return"
    /\ \E i \in FailedEvals(top.id) : log[i].n < Len(Definition(top).instructions)

IsSuffix(a, b) == \E k \in 0 .. Len(b) : a = SubSeq(b, k + 1, Len(b))

Holds(queue, request) == \E i \in 1 .. Len(queue) : queue[i] = request

\* C2: evaluate_function takes the front Request of the Authorization of its
\* call stack in Evaluate mode (the Authorization then starts with the
\* following Request and no longer holds the one taken) and, in Execute mode,
\* peeks the front Request and runs on a replica of the call stack, so that the
\* Authorization it was given holds the same Requests throughout the call and
\* after it.
C2_RetrieveByMode ==
    /\ \A k \in FrameIndices :
          LET f == stack[k]
          IN  f.kind = "evaluate_function" =>
                /\ (f.cs.mode = "Evaluate" /\ f.req # <<>>) =>
                      /\ f.pre # <<>>
                      /\ f.req[1] = Head(f.pre)
                      /\ f.cs.auth = f.entryAuth
                      /\ IsSuffix(auths[f.entryAuth], Tail(f.pre))
                      /\ ~Holds(auths[f.entryAuth], f.req[1])
                      /\ f.pc = "network" => auths[f.entryAuth] = Tail(f.pre)
                /\ f.cs.mode = "Execute" =>
                      /\ auths[f.entryAuth] = f.pre
                      /\ f.req # <<>> =>
                            /\ f.req[1] = Head(f.pre)
                            /\ f.cs.auth # f.entryAuth
                            /\ f.pc = "network" => auths[f.cs.auth] = f.pre
    /\ (result # <<>> /\ result[1].op = "evaluate_function") =>
          /\ result[1].mode = "Execute" => result[1].post = result[1].pre
          /\ (result[1].mode = "Evaluate" /\ result[1].pre # <<>>) =>
                IsSuffix(result[1].post, Tail(result[1].pre))

\* An evaluate_function in Execute mode has returned a Response over a
\* non-empty Authorization.
C2_Witness ==
    /\ result # <<>> /\ result[1].op = "evaluate_function"
    /\ result[1].mode = "Execute" /\ result[1].ret.ok /\ result[1].pre # <<>>

\* The calls of functions made during the current top-level call, in order.
FunctionCalls == SelectSeq(log, LAMBDA e : e.e = "call" /\ e.d \in FunctionNames)

\* C3: authorize seeds an Authorization with the one Request it signed, hands
\* that Request and that Authorization to the function under Authorize mode,
\* and returns the Authorization with the top-level Request first, followed by
\* one Request per nested call of a function, in call order: N + 1 Requests
\* for N nested calls.
C3_AuthorizeRecordsCalls ==
    /\ (stack # <<>> /\ stack[1].kind = "execute_function") =>
          LET f == stack[1]
          IN  /\ f.cs.mode = "Authorize"
              /\ Len(f.pre) = 1
              /\ f.pc = "x_prelude" => f.cs.requests = f.pre
              /\ f.req # <<>> => f.req[1] = f.pre[1]
              /\ auths[f.entryAuth] = f.pre \o signed
              /\ \A k \in FrameIndices :
                    stack[k].cs.mode = "Authorize" /\ stack[k].cs.auth = f.entryAuth
    /\ (result # <<>> /\ result[1].op = "authorize" /\ result[1].ret.ok) =>
          /\ result[1].post = recorded
          /\ Len(recorded) = Len(FunctionCalls) + 1
          /\ Tail(recorded) = signed
          /\ \A j \in 1 .. Len(signed) : signed[j].function_name = FunctionCalls[j].d

\* authorize has returned the Authorization of a function with three nested calls.
C3_Witness ==
    /\ result # <<>> /\ result[1].op = "authorize" /\ result[1].ret.ok
    /\ Len(FunctionCalls) = 3 /\ Len(recorded) = 4

\* C4: an evaluate_function in Execute mode over the Authorization that
\* authorize returned retrieves its N + 1 Requests in the recorded order and
\* leaves the Authorization without any Request.
C4_ExecuteReplayDrains ==
    (/\ result # <<>> /\ result[1].op = "evaluate_function" /\ result[1].mode = "Execute"
     /\ recorded # <<>> /\ result[1].pre = recorded) =>
        /\ retrieved = recorded
        /\ result[1].post = <<>>

\* C5: an evaluate_function in Evaluate mode over the Authorization that
\* authorize returned takes every Request once, in the recorded order, and
\* leaves the Authorization empty; an evaluate_function in Evaluate mode on an
\* empty Authorization fails without a Request.
C5_EvaluateDrainsInOrder ==
    /\ (stack # <<>> /\ stack[1].cs.mode = "Evaluate") =>
          retrieved \o auths[held] = stack[1].pre
    /\ (/\ result # <<>> /\ result[1].op = "evaluate_function"
        /\ result[1].mode = "Evaluate" /\ recorded # <<>> /\ result[1].pre = recorded) =>
          /\ result[1].ret.ok
          /\ retrieved = recorded
          /\ result[1].post = <<>>
    /\ (/\ result # <<>> /\ result[1].op = "evaluate_function"
        /\ result[1].mode = "Evaluate" /\ result[1].pre = <<>>) =>
          /\ ~result[1].ret.ok
          /\ result[1].ret.response = <<>>
          /\ retrieved = <<>>

\* The Authorization of a function and its nested call has been drained by an
\* evaluation, and a further evaluate_function in Evaluate mode has failed.
C5_Witness ==
    /\ result # <<>> /\ result[1].op = "evaluate_function" /\ result[1].mode = "Evaluate"
    /\ ~tampered /\ Len(recorded) = 2 /\ result[1].pre = <<>> /\ ~result[1].ret.ok

ArityMessage(f) ==
    IF f.kind = "evaluate_closure"
    THEN "Expected " \o ToString(Len(Closures[f.fn].inputs)) \o " inputs, found "
            \o ToString(Len(f.inputs))
    ELSE "Function " \o f.fn \o " in the program " \o f.self \o " expects "
            \o ToString(Len(Functions[f.fn].inputs)) \o " inputs, but "
            \o ToString(Len(f.inputs)) \o " were provided."

BodyEvents(c) ==
    Indices(c, "registers") \cup Indices(c, "verify") \cup Indices(c, "store")
        \cup Indices(c, "eval") \cup Indices(c, "call") \cup Indices(c, "outputs")

\* C6: a call whose number of inputs differs from the declared number fails
\* with an error that states the expected and the provided count, and it fails
\* before a Register File exists, before any input is stored and before any
\* instruction is evaluated; a call stores and evaluates only after its count
\* was found equal.
C6_ArityMismatchFailsFirst ==
    \A k \in FrameIndices :
       LET f == stack[k]
       IN  f.kind \in EvaluateKinds =>
             /\ \A i \in Indices(f.id, "arity") :
                   /\ log[i].n = Len(f.inputs)
                   /\ log[i].ok <=> (Len(f.inputs) = Len(Definition(f).inputs))
                   /\ ~log[i].ok =>
                         /\ f.pc = "return"
                         /\ f.ret = [ok |-> FALSE, err |-> ArityMessage(f),
                                     outputs |-> <<>>, response |-> <<>>]
                         /\ ~f.hasRegs /\ f.regs = <<>>
                         /\ BodyEvents(f.id) = {}
             /\ \A j \in BodyEvents(f.id) :
                   \E i \in Indices(f.id, "arity") : i < j /\ log[i].ok

\* An evaluate_function has failed on a Request with one input too many.
C6_Witness ==
    /\ stack # <<>> /\ top.kind = "evaluate_function" /\ top.pc = "return"
    /\ \E i \in Indices(top.id, "arity") : ~log[i].ok
    /\ Len(top.inputs) = Len(Functions[top.fn].inputs) + 1

\* C7 as stated: a Register File exists only for a Request that passed
\* verification.
C7_VerifiedBeforeRegisters ==
    \A k \in FrameIndices :
       (stack[k].kind = "evaluate_function" /\ stack[k].hasRegs) =>
          \E i \in Indices(stack[k].id, "verify") : log[i].ok

\* C7 as amended: the Request is verified after the Register File of the call
\* was constructed and the caller and tvk were set on it, and before any input
\* is stored and any instruction is evaluated; a Request that fails
\* verification leaves a Register File without any register stored and fails
\* the call.
C7_VerifiedBeforeInputsStored ==
    \A k \in FrameIndices :
       LET f == stack[k]
       IN  f.kind = "evaluate_function" =>
             /\ \A i \in Indices(f.id, "verify") :
                   /\ \E j \in Indices(f.id, "registers") : j < i
                   /\ f.hasRegs
                   /\ f.rcaller = <<f.req[1].caller>> /\ f.rtvk = <<f.req[1].tvk>>
                   /\ ~f.req[1].sig => ~log[i].ok
                   /\ ~log[i].ok =>
                         /\ f.pc = "return" /\ f.regs = <<>>
                         /\ f.ret = [ok |-> FALSE, err |-> "Request is invalid",
                                     outputs |-> <<>>, response |-> <<>>]
                         /\ \A j \in EventsOf(f.id) : j <= i
             /\ \A j \in Indices(f.id, "store") \cup Indices(f.id, "eval")
                           \cup Indices(f.id, "call") :
                   \E i \in Indices(f.id, "verify") : i < j /\ log[i].ok

\* An evaluate_function has failed on a Request with an invalid signature,
\* with its Register File constructed.
C7_Witness ==
    /\ stack # <<>> /\ top.kind = "evaluate_function" /\ top.pc = "return"
    /\ top.hasRegs /\ ~top.req[1].sig
    /\ \E i \in Indices(top.id, "verify") : ~log[i].ok

\* C8: when evaluate_function returns an error, the Authorization of the call
\* stack it was given holds the Requests it held before the call.
C8_FailedCallLeavesAuthorization ==
    \A k \in FrameIndices :
       (stack[k].kind = "evaluate_function" /\ stack[k].pc = "return" /\ ~stack[k].ret.ok) =>
          auths[stack[k].entryAuth] = stack[k].pre

\* C9: evaluate_function on a call stack that is neither Evaluate nor Execute
\* returns the error of the illegal operation and does nothing else: no
\* Request is taken or peeked, the call stack is not replicated, no Register
\* File is built, no step of the call runs and no Response is returned.
C9_OtherModeFailsFast ==
    /\ \A k \in FrameIndices :
          LET f == stack[k]
          IN  (/\ f.kind = "evaluate_function"
               /\ f.cs.mode \notin {"Evaluate", "Execute"}
               /\ f.pc # "retrieve") =>
                /\ f.pc = "return"
                /\ f.ret = [ok |-> FALSE, outputs |-> <<>>, response |-> <<>>,
                            err |-> "Illegal operation: call stack must be Evaluate or Execute in evaluate_function."]
                /\ f.req = <<>> /\ ~f.hasRegs
                /\ f.cs.auth = f.entryAuth /\ auths[f.entryAuth] = f.pre
                /\ \A i \in EventsOf(f.id) : log[i].e \in {"enter", "none"}
                /\ k = 1 => retrieved = <<>> /\ Len(auths) = 1
    /\ (/\ result # <<>> /\ result[1].op = "evaluate_function"
        /\ result[1].mode \notin {"Evaluate", "Execute"}) =>
          /\ ~result[1].ret.ok
          /\ result[1].ret.response = <<>>
          /\ result[1].post = result[1].pre
          /\ retrieved = <<>>

\* An evaluate_function in Authorize mode has returned, over an Authorization
\* that holds Requests.
C9_Witness ==
    /\ result # <<>> /\ result[1].op = "evaluate_function"
    /\ result[1].mode = "Authorize" /\ result[1].pre # <<>>

(***************************************************************************)
(* The binary codec of the bytecode Instruction                            *)
(***************************************************************************)

\* Operands are register indices 0 .. MaxOperand.
MaxOperand == 1

\* The variants of Instruction, in declaration order.
VariantOrder ==
    << "Add", "Div", "Double", "Equal", "GreaterThan", "GreaterThanOrEqual", "Inv",
       "LessThan", "LessThanOrEqual", "Mul", "Neg", "NotEqual", "Pow", "Square", "Sub",
       "Ternary" >>

Variants == {VariantOrder[i] : i \in 1 .. Len(VariantOrder)}

\* An opcode that counts the variants from one.
OpcodeFromOne(variant) == CHOOSE i \in 1 .. Len(VariantOrder) : VariantOrder[i] = variant

\* Instruction::opcode: enum_index, the position of the variant in the enum.
Opcode(variant) == (CHOOSE i \in 1 .. Len(VariantOrder) : VariantOrder[i] = variant) - 1

\* A match that answers every unknown code with the first variant.
ReadVariantWithFallback(code) ==
    IF code \in 1 .. 15 THEN VariantOrder[code + 1] ELSE "Add"

\* The match of Instruction::read_le: the variant of a code, "" for any other code.
ReadVariant(code) ==
    CASE code = 0 -> "Add"
      [] code = 1 -> "Div"
      [] code = 2 -> "Double"
      [] code = 3 -> "Equal"
      [] code = 4 -> "GreaterThan"
      [] code = 5 -> "GreaterThanOrEqual"
      [] code = 6 -> "Inv"
      [] code = 7 -> "LessThan"
      [] code = 8 -> "LessThanOrEqual"
      [] code = 9 -> "Mul"
      [] code = 10 -> "Neg"
      [] code = 11 -> "NotEqual"
      [] code = 12 -> "Pow"
      [] code = 13 -> "Square"
      [] code = 14 -> "Sub"
      [] code = 15 -> "Ternary"
      [] OTHER -> ""

\* The number of operands of a variant, its destination included.
OperandCount(variant) ==
    IF variant \in {"Double", "Inv", "Neg", "Square"} THEN 2
    ELSE IF variant = "Ternary" THEN 4
    ELSE 3

\* u16::write_le.
U16Bytes(n) == << n % 256, (n \div 256) % 256 >>

\* u16::read_le.
U16Value(bs) == bs[1] + 256 * bs[2]

\* The operation's own write_le: one byte per register index.
OperandBytes(operands) == [i \in 1 .. Len(operands) |-> operands[i] % 256]

\* Instruction::write_le: the opcode, then the operands of the operation.
WriteLE(instruction) ==
    U16Bytes(Opcode(instruction.variant)) \o OperandBytes(instruction.operands)

ReadError(msg) == [ok |-> FALSE, err |-> msg, variant |-> "", operands |-> <<>>]

\* Instruction::read_le.
ReadLE(bs) ==
    IF Len(bs) < 2 THEN ReadError("failed to fill whole buffer")
    ELSE LET code == U16Value(bs)
             variant == ReadVariant(code)
         IN  IF variant = ""
             THEN ReadError("FromBytes failed to parse an instruction of code " \o ToString(code))
             ELSE IF Len(bs) < 2 + OperandCount(variant)
             THEN ReadError("failed to fill whole buffer")
             ELSE [ok |-> TRUE, err |-> "", variant |-> variant,
                   operands |-> SubSeq(bs, 3, 2 + OperandCount(variant))]

Instructions ==
    UNION { { [variant |-> v, operands |-> o] :
                o \in [1 .. OperandCount(v) -> 0 .. MaxOperand] } : v \in Variants }

InitCodec ==
    /\ ExecIdle /\ ParseIdle /\ MemoryIdle /\ BlockIdle /\ GroupIdle /\ LaterIdle
    /\ instr \in Instructions
    /\ bytes = <<>>
    /\ decoded = ReadError("")
    /\ rewritten = <<>>
    /\ cpc = "start"

\* The instruction is written.
CodecWrite ==
    /\ cpc = "start"
    /\ bytes' = WriteLE(instr)
    /\ cpc' = "written"
    /\ UNCHANGED <<instr, decoded, rewritten, notCodec>>

\* The bytes are read back.
CodecRead ==
    /\ cpc = "written"
    /\ decoded' = ReadLE(bytes)
    /\ cpc' = "read"
    /\ UNCHANGED <<instr, bytes, rewritten, notCodec>>

\* The instruction that was read is written again.
CodecRewrite ==
    /\ cpc = "read" /\ decoded.ok
    /\ rewritten' = WriteLE([variant |-> decoded.variant, operands |-> decoded.operands])
    /\ cpc' = "rewritten"
    /\ UNCHANGED <<instr, bytes, decoded, notCodec>>

NextCodec == CodecWrite \/ CodecRead \/ CodecRewrite

SpecCodec == InitCodec /\ [][NextCodec]_vars

\* C10: write_le emits the two little-endian bytes of the declaration index of
\* the variant, then the operands; read_le of these bytes returns the same
\* variant with the same operands, and writing what was read gives the same
\* bytes; the codes 0 .. 15 and the 16 variants correspond one to one.
C10_BinaryRoundTrip ==
    /\ Cardinality(Variants) = 16
    /\ \A v \in Variants : Opcode(v) \in 0 .. 15 /\ ReadVariant(Opcode(v)) = v
    /\ \A c \in 0 .. 15 : ReadVariant(c) \in Variants /\ Opcode(ReadVariant(c)) = c
    /\ cpc # "start" =>
          /\ Len(bytes) = 2 + Len(instr.operands)
          /\ bytes[1] \in 0 .. 15 /\ bytes[2] = 0
          /\ VariantOrder[bytes[1] + 1] = instr.variant
          /\ SubSeq(bytes, 3, Len(bytes)) = instr.operands
    /\ cpc \in {"read", "rewritten"} =>
          /\ decoded.ok
          /\ decoded.variant = instr.variant
          /\ decoded.operands = instr.operands
    /\ cpc = "rewritten" => rewritten = bytes

\* A Ternary instruction has been written, read back and written again.
C10_Witness ==
    /\ cpc = "rewritten" /\ instr.variant = "Ternary"
    /\ decoded.variant = "Ternary" /\ bytes[1] = 15

(***************************************************************************)
(* Instruction::read_le on arbitrary byte streams                          *)
(***************************************************************************)

\* The streams read are of length 0 .. MaxStreamLen.
MaxStreamLen == 5

\* The bytes of the streams: the codes of Add and Double, the first unknown
\* code, and the largest byte.
StreamBytes == {0, 2, 16, 255}

InitDecode ==
    /\ ExecIdle /\ ParseIdle /\ MemoryIdle /\ BlockIdle /\ GroupIdle /\ LaterIdle
    /\ instr = <<>>
    /\ bytes \in SeqsUpTo(StreamBytes, MaxStreamLen)
    /\ decoded = ReadError("")
    /\ rewritten = <<>>
    /\ cpc = "written"

SpecDecode == InitDecode /\ [][CodecRead \/ CodecRewrite]_vars

\* C11: read_le of a stream whose two-byte code is not one of 0 .. 15 fails
\* with the error that names the code and returns no variant; read_le of a
\* stream too short to hold the code fails with the error of the read; a
\* code of 0 .. 15 is never answered with the error of an unknown code.
C11_UnknownTagFails ==
    cpc \in {"read", "rewritten"} =>
       /\ Len(bytes) < 2 => (~decoded.ok /\ decoded.variant = ""
                             /\ decoded.err = "failed to fill whole buffer")
       /\ (Len(bytes) >= 2 /\ U16Value(bytes) >= 16) =>
             /\ ~decoded.ok
             /\ decoded.variant = "" /\ decoded.operands = <<>>
             /\ decoded.err = "FromBytes failed to parse an instruction of code "
                                 \o ToString(bytes[1] + 256 * bytes[2])
       /\ decoded.ok => (Len(bytes) >= 2 /\ U16Value(bytes) \in 0 .. 15
                         /\ decoded.variant = VariantOrder[U16Value(bytes) + 1])

\* A stream with the code 16 and a stream with a code above 255 have been
\* read and refused.
C11_Witness ==
    /\ cpc = "read" /\ ~decoded.ok
    /\ Len(bytes) >= 2 /\ bytes[2] = 255
    /\ decoded.err = "FromBytes failed to parse an instruction of code "
                        \o ToString(bytes[1] + 65280)

(***************************************************************************)
(* The textual form of the bytecode Instruction: Display and parse         *)
(***************************************************************************)

\* Text is a sequence of characters.
IsPrefix(p, s) == Len(p) <= Len(s) /\ SubSeq(s, 1, Len(p)) = p

Drop(s, n) == SubSeq(s, n + 1, Len(s))

\* The mnemonic of each operation.
Mnemonic(variant) ==
    CASE variant = "Add" -> <<"a", "d", "d">>
      [] variant = "Div" -> <<"d", "i", "v">>
      [] variant = "Double" -> <<"d", "o", "u", "b", "l", "e">>
      [] variant = "Equal" -> <<"e", "q">>
      [] variant = "GreaterThan" -> <<"g", "t">>
      [] variant = "GreaterThanOrEqual" -> <<"g", "t", "e">>
      [] variant = "Inv" -> <<"i", "n", "v">>
      [] variant = "LessThan" -> <<"l", "t">>
      [] variant = "LessThanOrEqual" -> <<"l", "t", "e">>
      [] variant = "Mul" -> <<"m", "u", "l">>
      [] variant = "Neg" -> <<"n", "e", "g">>
      [] variant = "NotEqual" -> <<"n", "e", "q">>
      [] variant = "Pow" -> <<"p", "o", "w">>
      [] variant = "Square" -> <<"s", "q", "u", "a", "r", "e">>
      [] variant = "Sub" -> <<"s", "u", "b">>
      [] variant = "Ternary" -> <<"t", "e", "r", "n", "a", "r", "y">>

\* The Display of a register.
RegisterText(r) == <<"r", ToString(r)>>

\* The Display of an operation: its registers, separated by one space.
RECURSIVE OperationText(_)
OperationText(regs) ==
    IF regs = <<>> THEN <<>>
    ELSE IF Len(regs) = 1 THEN RegisterText(regs[1])
    ELSE RegisterText(regs[1]) \o <<" ">> \o OperationText(Tail(regs))

\* Display for Instruction: "{mnemonic} {instruction};".
Display(instruction) ==
    Mnemonic(instruction.variant) \o <<" ">> \o OperationText(instruction.operands) \o <<";">>

ParseError(msg, string) ==
    [ok |-> FALSE, err |-> msg, variant |-> "", operands |-> <<>>, rest |-> string]

Whitespace == {" ", "\n", "\t"}

\* The text after the end of the line.
RECURSIVE AfterLine(_)
AfterLine(string) ==
    IF string = <<>> THEN string
    ELSE IF Head(string) = "\n" THEN Tail(string)
    ELSE AfterLine(Tail(string))

\* Sanitizer::parse: the text after its leading whitespace and comments.
RECURSIVE Sanitize(_)
Sanitize(string) ==
    IF string = <<>> THEN string
    ELSE IF Head(string) \in Whitespace THEN Sanitize(Tail(string))
    ELSE IF IsPrefix(<<"/", "/">>, string) THEN Sanitize(AfterLine(Drop(string, 2)))
    ELSE string

\* A match of the mnemonic alone, whatever follows it.
MatchMnemonicOnly(variant, string) ==
    IF IsPrefix(Mnemonic(variant), string)
    THEN [ok |-> TRUE, rest |-> Drop(string, Len(Mnemonic(variant)))]
    ELSE [ok |-> FALSE, rest |-> string]

\* pair(tag(mnemonic), tag(" ")): the mnemonic, then one space.
MatchMnemonic(variant, string) ==
    IF IsPrefix(Mnemonic(variant) \o <<" ">>, string)
    THEN [ok |-> TRUE, rest |-> Drop(string, Len(Mnemonic(variant)) + 1)]
    ELSE [ok |-> FALSE, rest |-> string]

Digits == 0 .. 9

\* The parse of one register.
ParseRegister(string) ==
    IF Len(string) >= 2 /\ string[1] = "r" /\ \E d \in Digits : ToString(d) = string[2]
    THEN [ok |-> TRUE, reg |-> CHOOSE d \in Digits : ToString(d) = string[2],
          rest |-> Drop(string, 2)]
    ELSE [ok |-> FALSE, reg |-> 0, rest |-> string]

\* The parse of an operation: count registers, separated by one space.
RECURSIVE ParseRegisters(_, _, _)
ParseRegisters(string, count, sofar) ==
    LET r == ParseRegister(string)
    IN  IF ~r.ok THEN [ok |-> FALSE, regs |-> sofar, rest |-> string]
        ELSE IF count = 1 THEN [ok |-> TRUE, regs |-> Append(sofar, r.reg), rest |-> r.rest]
        ELSE IF r.rest # <<>> /\ Head(r.rest) = " "
        THEN ParseRegisters(Tail(r.rest), count - 1, Append(sofar, r.reg))
        ELSE [ok |-> FALSE, regs |-> sofar, rest |-> string]

\* The alternatives of Instruction::parse, in the order they are tried.
ParseAlternatives == <<"Add", "Sub">>

\* preceded(pair(tag(mnemonic), tag(" ")), map(Operation::parse, Into::into)).
ParseAlternative(variant, string) ==
    LET m == MatchMnemonic(variant, string)
    IN  IF ~m.ok THEN ParseError("Tag", string)
        ELSE LET o == ParseRegisters(m.rest, OperandCount(variant), <<>>)
             IN  IF o.ok
                 THEN [ok |-> TRUE, err |-> "", variant |-> variant, operands |-> o.regs,
                       rest |-> o.rest]
                 ELSE ParseError("Operation", string)

\* alt: the first alternative that succeeds, or the error of the last one.
RECURSIVE Alt(_, _)
Alt(alternatives, string) ==
    LET first == ParseAlternative(Head(alternatives), string)
    IN  IF first.ok \/ Len(alternatives) = 1 THEN first
        ELSE Alt(Tail(alternatives), string)

\* A semicolon that may be missing.
ParseSemicolonOptional(string) ==
    IF string # <<>> /\ Head(string) = ";"
    THEN [ok |-> TRUE, rest |-> Tail(string)]
    ELSE [ok |-> TRUE, rest |-> string]

\* tag(";").
ParseSemicolon(string) ==
    IF string # <<>> /\ Head(string) = ";"
    THEN [ok |-> TRUE, rest |-> Tail(string)]
    ELSE [ok |-> FALSE, rest |-> string]

\* Instruction::parse.
Parse(string) ==
    LET sanitized == Sanitize(string)
        i == Alt(ParseAlternatives, sanitized)
    IN  IF ~i.ok THEN i
        ELSE LET semi == ParseSemicolon(i.rest)
             IN  IF semi.ok THEN [i EXCEPT !.rest = semi.rest]
                 ELSE ParseError("Tag", i.rest)

\* What may come before an instruction: nothing, whitespace, comments.
Leads ==
    { <<>>, <<" ">>, <<"\n", " ", "\t">>, <<"/", "/", " ", "c", "\n">>,
      <<" ", "/", "/", "a", "d", "d", " ", "\n", "/", "/", "\n", " ">> }

\* What may come after the operands.
Trails == { <<";">>, <<>>, <<";", ";">>, <<";", " ", "s", "u", "b", " ">>, <<" ", ";">> }

\* Texts that are not the Display of an instruction.
OtherBodies ==
    { <<"a", "d", "d">>,
      <<"a", "d", "d", "r", "0", " ", "r", "1", " ", "r", "0">>,
      <<"a", "d", "d", "e", "r", " ", "r", "0", " ", "r", "1", " ", "r", "0">>,
      <<"s", "u", "b", "\t", "r", "0", " ", "r", "1", " ", "r", "0">>,
      <<"s", "u", "b", " ", "r", "0", " ", "r", "1">>,
      <<"s", "u", "b", " ", "r", "0", " ", " ", "r", "1", " ", "r", "0">> }

\* The Display of the instruction, without its semicolon.
Body(instruction) == SubSeq(Display(instruction), 1, Len(Display(instruction)) - 1)

NoInstruction == [variant |-> "", operands |-> <<>>]

Sources ==
    { [lead |-> l, instruction |-> i, body |-> Body(i), trail |-> t] :
        l \in Leads, i \in Instructions, t \in Trails }
    \cup
    { [lead |-> l, instruction |-> NoInstruction, body |-> b, trail |-> t] :
        l \in Leads, b \in OtherBodies, t \in Trails }

SourceText(src) == src.lead \o src.body \o src.trail

InitParse ==
    /\ ExecIdle /\ CodecIdle /\ MemoryIdle /\ BlockIdle /\ GroupIdle /\ LaterIdle
    /\ source \in Sources
    /\ parsed = ParseError("", <<>>)
    /\ ppc = "start"

\* Instruction::parse is called on the text.
CallParse ==
    /\ ppc = "start"
    /\ parsed' = Parse(SourceText(source))
    /\ ppc' = "parsed"
    /\ UNCHANGED <<source, notParse>>

SpecParse == InitParse /\ [][CallParse]_vars

\* C12: for every variant, the text that Display writes for an instruction is
\* parsed back to the same instruction, with nothing left of the text.
C12_TextRoundTrip ==
    (/\ ppc = "parsed" /\ source.instruction # NoInstruction
     /\ source.lead = <<>> /\ source.trail = <<";">>) =>
        /\ parsed.ok
        /\ parsed.variant = source.instruction.variant
        /\ parsed.operands = source.instruction.operands
        /\ parsed.rest = <<>>

\* The alternatives whose mnemonic and space begin the sanitized text.
MatchingAlternatives(string) ==
    {k \in 1 .. Len(ParseAlternatives) : MatchMnemonic(ParseAlternatives[k], Sanitize(string)).ok}

\* C13: parse skips the whitespace and comments before the instruction, and
\* takes exactly one semicolon after it: without the semicolon the text is
\* refused, and what follows the first semicolon is returned as the rest.
C13_OneSemicolon ==
    (ppc # "start" /\ source.instruction.variant \in {"Add", "Sub"}) =>
        /\ (source.trail = <<>> \/ Head(source.trail) # ";") => ~parsed.ok
        /\ (source.trail # <<>> /\ Head(source.trail) = ";") =>
              /\ parsed.ok
              /\ parsed.variant = source.instruction.variant
              /\ parsed.operands = source.instruction.operands
              /\ parsed.rest = Tail(source.trail)

\* An instruction behind comments and whitespace and followed by two
\* semicolons has been parsed, and the second semicolon is what remains.
C13_Witness ==
    /\ ppc = "parsed" /\ parsed.ok /\ parsed.variant = "Sub"
    /\ Len(source.lead) > 5 /\ source.trail = <<";", ";">> /\ parsed.rest = <<";">>

\* C14: for every text at most one alternative of parse matches, and parse
\* returns an instruction only of the alternative whose whole mnemonic is
\* followed at once by a space in the text.
C14_AtMostOneAlternative ==
    /\ Cardinality(MatchingAlternatives(SourceText(source))) <= 1
    /\ \A v \in Variants : \A w \in Variants :
          (v # w /\ IsPrefix(Mnemonic(v), Mnemonic(w))) =>
             ~IsPrefix(Mnemonic(v) \o <<" ">>, Mnemonic(w) \o <<" ">>)
    /\ (ppc # "start" /\ parsed.ok) =>
          /\ IsPrefix(Mnemonic(parsed.variant) \o <<" ">>, Sanitize(SourceText(source)))
          /\ MatchingAlternatives(SourceText(source)) =
                {CHOOSE k \in 1 .. Len(ParseAlternatives) : ParseAlternatives[k] = parsed.variant}

\* A text that begins with the mnemonic add, not followed by a space, has
\* been refused.
C14_Witness ==
    /\ ppc = "parsed" /\ ~parsed.ok
    /\ source.instruction = NoInstruction
    /\ IsPrefix(<<"a", "d", "d", "r">>, source.body) /\ source.trail = <<";">>

(***************************************************************************)
(* One call at a time: evaluate_function and evaluate_closure on any stack *)
(***************************************************************************)

Programs == {"p1.aleo", "p2.aleo", "p3.aleo"}

\* The Authorizations handed to a call: none, or one signed Request.
CallAuthorizations ==
    { <<>> } \cup
    UNION { { <<Sign(p, name, inputs, 1)>> :
                p \in Programs, inputs \in SeqsUpTo(Values, Len(Functions[name].inputs)) } :
            name \in FunctionNames }

InitCall ==
    /\ auths \in { <<q>> : q \in CallAuthorizations }
    /\ held = 1 /\ recorded = <<>> /\ authorized = FALSE /\ tampered = FALSE
    /\ stack = <<>> /\ result = <<>> /\ log = <<>> /\ retrieved = <<>>
    /\ signed = <<>> /\ nonce = 2
    /\ CodecIdle /\ ParseIdle /\ MemoryIdle /\ BlockIdle /\ GroupIdle /\ LaterIdle

\* evaluate_function is called on the stack of a program.
CallEvaluateFunctionOn(self, mode) ==
    /\ stack = <<>>
    /\ stack' = <<NewFrame(1, "evaluate_function", self, "",
                           CallStack(mode, <<>>, held), "retrieve", <<>>, 0, 0, auths)>>
    /\ log' = <<Ev(1, "enter", TRUE, 0, "evaluate_function")>>
    /\ retrieved' = <<>>
    /\ result' = <<>>
    /\ UNCHANGED <<auths, held, recorded, authorized, tampered, signed, nonce, notExec>>

NextCall ==
    \/ \E self \in Programs : \E mode \in Modes : CallEvaluateFunctionOn(self, mode)
    \/ \E closure \in ClosureNames : \E mode \in Modes :
         \E inputs \in SeqsUpTo(Values, Len(Closures[closure].inputs)) :
            CallEvaluateClosure(closure, inputs, mode)
    \/ RetrieveRequest
    \/ CheckNetwork
    \/ LookupFunction
    \/ CheckInputCount
    \/ InitializeRegisters
    \/ VerifyRequest
    \/ StoreInputs
    \/ EvaluateInstruction
    \/ CallEvaluate
    \/ ReturnToCaller
    \/ LoadOutputs
    \/ ComputeResponse
    \/ ClosureCheckInputCount
    \/ ClosureInitializeRegisters
    \/ ReturnTopLevel

SpecCall == InitCall /\ [][NextCall]_vars

\* The frames that are in both the stack and the stack after the step.
KeptFrames ==
    {k \in 1 .. Len(stack) : k <= Len(stack') /\ stack'[k].id = stack[k].id}

\* The registers of the frame hold what they held, and maybe more.
RegistersKept(f, g) ==
    \A r \in DOMAIN f.regs : r \in DOMAIN g.regs /\ g.regs[r] = f.regs[r]

\* The instruction at hand writes a register that is set, or reads one that is not.
BreaksSingleAssignment(f) ==
    LET ins == CurrentInstruction(f)
    IN  \/ ins.dest[1] \in DOMAIN f.regs
        \/ \E i \in 1 .. Len(ins.args) : ins.args[i] \notin DOMAIN f.regs

\* C15: a register of a call keeps the value first stored in it; an
\* instruction that stores to a register already set or loads a register
\* never set fails with an error and leaves the Register File as it was; the
\* call whose input store fails ends with that error before any instruction
\* is evaluated, and a call at its first instruction holds every input in its
\* declared register.
C15_SingleAssignment ==
    /\ [](\A c \in EvaluateCalls :
            (\E i \in Indices(c, "store") : ~log[i].ok) =>
               /\ Indices(c, "eval") = {} /\ Indices(c, "call") = {}
               /\ Indices(c, "outputs") = {} /\ Indices(c, "response") = {})
    /\ [](\A k \in FrameIndices :
            (stack[k].kind \in EvaluateKinds /\ stack[k].pc = "instructions") =>
               \A i \in 1 .. Len(Definition(stack[k]).inputs) :
                  /\ Definition(stack[k]).inputs[i] \in DOMAIN stack[k].regs
                  /\ stack[k].regs[Definition(stack[k]).inputs[i]] = stack[k].inputs[i])
    /\ [][ /\ \A k \in KeptFrames : RegistersKept(stack[k], stack'[k])
           /\ (/\ AtInstruction /\ CurrentInstruction(top).opc # "call"
               /\ BreaksSingleAssignment(top) /\ stack' # stack) =>
                 /\ Len(stack') = Len(stack)
                 /\ top'.pc = "return" /\ ~top'.ret.ok
                 /\ top'.ret.err # "" /\ top'.ret.outputs = <<>>
                 /\ top'.regs = top.regs
         ]_vars

\* A call has failed on an instruction that stores to a register already
\* written, with the register unchanged.
C15_Witness ==
    /\ stack # <<>> /\ top.fn = "c2" /\ top.pc = "return" /\ ~top.ret.ok
    /\ top.ip = 2 /\ 0 \in DOMAIN top.regs /\ top.regs[0] = top.inputs[1]
    /\ \E i \in Indices(top.id, "eval") : ~log[i].ok /\ log[i].n = 2

\* What an output operand stands for at the end of the call f.
ExpectedOutput(f, operand) ==
    CASE operand.kind = "Literal" -> FieldVal(operand.lit)
      [] operand.kind = "Register" -> f.regs[operand.reg]
      [] operand.kind = "ProgramID" -> AddressVal(ProgramAddress(Definition(f).program))
      [] OTHER -> AddressVal(f.caller)

UnsetOutputs(f) ==
    {i \in 1 .. Len(Definition(f).outputs) :
        /\ Definition(f).outputs[i].kind = "Register"
        /\ Definition(f).outputs[i].reg \notin DOMAIN f.regs}

\* C17: a call that succeeds returns one value for each declared output, in
\* the declared order: the literal of a Literal operand, the value the
\* register holds for a Register operand, the address of the program for a
\* ProgramID operand and the caller of the call for a Caller operand; a call
\* with an output register that was never set fails.
C17_OutputsInDeclaredOrder ==
    \A k \in FrameIndices :
       LET f == stack[k]
       IN  (/\ f.kind \in EvaluateKinds
            /\ f.pc \in {"response", "return"}
            /\ \E i \in Indices(f.id, "outputs") : TRUE) =>
              /\ f.ret.ok <=> UnsetOutputs(f) = {}
              /\ f.ret.ok =>
                    /\ Len(f.ret.outputs) = Len(Definition(f).outputs)
                    /\ \A i \in 1 .. Len(Definition(f).outputs) :
                          f.ret.outputs[i] = ExpectedOutput(f, Definition(f).outputs[i])
              /\ ~f.ret.ok => (f.ret.outputs = <<>> /\ f.ret.response = <<>>)

\* A closure has returned its five outputs, one of each kind of operand.
C17_Witness ==
    /\ stack # <<>> /\ top.fn = "c4" /\ top.pc = "return" /\ top.ret.ok
    /\ Len(top.ret.outputs) = 5
    /\ top.ret.outputs[1] = FieldVal(1) /\ top.ret.outputs[3] = AddressVal(SignerAddress)
    /\ top.ret.outputs[4] = AddressVal(101) /\ top.ret.outputs[5] = top.inputs[1]

\* C18: the Response of an evaluate_function carries the network id, the
\* program id, the function name, the number of inputs, the tvk and the tcm of
\* the Request retrieved for the call, and for each declared output its
\* register when the operand is a register and none otherwise.
C18_ResponseBoundToRequest ==
    \A k \in FrameIndices :
       LET f == stack[k]
       IN  (f.kind = "evaluate_function" /\ f.pc = "return" /\ f.ret.ok) =>
              LET response == f.ret.response[1]
                  request == f.req[1]
                  outputs == Functions[f.fn].outputs
              IN  /\ response.network_id = request.network_id
                  /\ response.program_id = request.program_id
                  /\ response.function_name = request.function_name
                  /\ response.num_inputs = Len(request.inputs)
                  /\ response.tvk = request.tvk
                  /\ response.tcm = request.tcm
                  /\ Len(response.output_registers) = Len(outputs)
                  /\ \A i \in 1 .. Len(outputs) :
                        response.output_registers[i] =
                           IF outputs[i].kind = "Register" THEN <<outputs[i].reg>> ELSE <<>>

(***************************************************************************)
(* Instruction::evaluate of the bytecode Instruction                       *)
(***************************************************************************)

\* The registers an instruction reads, and the one it writes (the last).
InputRegisters(instruction) == SubSeq(instruction.operands, 1, Len(instruction.operands) - 1)

DestinationRegister(instruction) == instruction.operands[Len(instruction.operands)]

Truth(b) == IF b THEN 1 ELSE 0

\* The power a ^ n in the field.
RECURSIVE FieldPow(_, _)
FieldPow(a, n) == IF n = 0 THEN 1 % FieldP ELSE (a * FieldPow(a, n - 1)) % FieldP

\* The operation has no result on these values: the operand of Inv, or the
\* divisor of Div, has no inverse.
HasNoResult(variant, values) ==
    \/ variant = "Inv" /\ Inverses(values[1]) = {}
    \/ variant = "Div" /\ Inverses(values[2]) = {}

\* The value of each operation on the values of its operands.
OperationValue(variant, values) ==
    CASE variant = "Add" -> (values[1] + values[2]) % FieldP
      [] variant = "Sub" -> (values[1] + FieldP - values[2]) % FieldP
      [] variant = "Mul" -> (values[1] * values[2]) % FieldP
      [] variant = "Div" -> (values[1] * (CHOOSE x \in Inverses(values[2]) : TRUE)) % FieldP
      [] variant = "Inv" -> CHOOSE x \in Inverses(values[1]) : TRUE
      [] variant = "Neg" -> (FieldP - values[1]) % FieldP
      [] variant = "Double" -> (2 * values[1]) % FieldP
      [] variant = "Square" -> (values[1] * values[1]) % FieldP
      [] variant = "Pow" -> FieldPow(values[1], values[2])
      [] variant = "Equal" -> Truth(values[1] = values[2])
      [] variant = "NotEqual" -> Truth(values[1] # values[2])
      [] variant = "LessThan" -> Truth(values[1] < values[2])
      [] variant = "LessThanOrEqual" -> Truth(values[1] <= values[2])
      [] variant = "GreaterThan" -> Truth(values[1] > values[2])
      [] variant = "GreaterThanOrEqual" -> Truth(values[1] >= values[2])
      [] variant = "Ternary" -> IF values[1] # 0 THEN values[2] ELSE values[3]

\* The values the instruction loads from the memory.
LoadedValues(m) ==
    [i \in 1 .. Len(InputRegisters(m.instruction)) |-> m.registers[InputRegisters(m.instruction)[i]]]

\* Instruction::evaluate returns nothing: these are the ways it can end.
EvaluateOutcomes == {"returned", "halted"}

InitMemory ==
    /\ ExecIdle /\ CodecIdle /\ ParseIdle /\ BlockIdle /\ GroupIdle /\ LaterIdle
    /\ memory \in [ instruction : Instructions,
                    registers : [0 .. MaxOperand -> 0 .. FieldP - 1],
                    stored : {<<>>} ]
    /\ outcome = <<>>
    /\ mpc = "start"

\* Instruction::evaluate on an operation that has a result: the result is
\* stored in the destination and evaluate returns.
EvaluateReturns ==
    /\ mpc = "start"
    /\ ~HasNoResult(memory.instruction.variant, LoadedValues(memory))
    /\ memory' = [memory EXCEPT !.stored =
                     << DestinationRegister(memory.instruction),
                        OperationValue(memory.instruction.variant, LoadedValues(memory)) >>]
    /\ outcome' = [kind |-> "returned", error |-> <<>>]
    /\ mpc' = "evaluated"
    /\ UNCHANGED notMemory

\* Instruction::evaluate on an operation that has no result: evaluate has no
\* error to return, so it halts the program or returns with nothing stored.
EvaluateWithoutResult ==
    /\ mpc = "start"
    /\ HasNoResult(memory.instruction.variant, LoadedValues(memory))
    /\ \E kind \in EvaluateOutcomes : outcome' = [kind |-> kind, error |-> <<>>]
    /\ mpc' = "evaluated"
    /\ UNCHANGED <<memory, notMemory>>

NextMemory == EvaluateReturns \/ EvaluateWithoutResult

SpecMemory == InitMemory /\ [][NextMemory]_vars

\* C16: the evaluation of Inv on zero, and of Div by zero, ends with an error
\* returned to the caller, and the error names the instruction.
C16_DivisionByZeroReturnsError ==
    (mpc = "evaluated" /\ HasNoResult(memory.instruction.variant, LoadedValues(memory))) =>
        /\ outcome.kind = "error"
        /\ outcome.error = <<Display(memory.instruction)>>

(***************************************************************************)
(* The bytes of a Block                                                    *)
(***************************************************************************)

\* A block holds 1 .. MaxTransactions transactions.
MaxTransactions == 2

\* Hashes, headers, transactions, coinbases and signatures are one byte each.
Byte == 0 .. 255

PartValues == {0, 1}

\* Block::hash: the hash of the previous hash and the header.
BlockHashOf(previous_hash, header) == (3 * previous_hash + 5 * header + 7) % 256

\* The signature of the block hash.
SignatureOf(block_hash) == (block_hash + 1) % 256

BlockError(msg) == [ok |-> FALSE, err |-> msg, block |-> <<>>]

\* Block::from: the parts make a block when there are transactions and the
\* signature is the one of the block hash; the block carries its hash.
BlockFrom(previous_hash, header, transactions, coinbase, signature) ==
    IF transactions = <<>> THEN BlockError("Cannot create a block with zero transactions")
    ELSE IF signature # SignatureOf(BlockHashOf(previous_hash, header))
    THEN BlockError("Invalid signature for block")
    ELSE [ok |-> TRUE, err |-> "",
          block |-> << [ block_hash |-> BlockHashOf(previous_hash, header),
                         previous_hash |-> previous_hash, header |-> header,
                         transactions |-> transactions, coinbase |-> coinbase,
                         signature |-> signature ] >>]

\* The valid blocks: coinbase is <<>> for None and <<c>> for Some(c).
Blocks ==
    { BlockFrom(p, h, t, c, SignatureOf(BlockHashOf(p, h))).block[1] :
        p \in PartValues, h \in PartValues,
        t \in SeqsUpTo(PartValues, MaxTransactions) \ {<<>>},
        c \in {<<>>} \cup {<<x>> : x \in PartValues \cup {2}} }

\* The write_le of the transactions: their number, then each of them.
WriteTransactions(transactions) == <<Len(transactions)>> \o transactions

\* A coinbase written without its tag.
WriteCoinbaseUntagged(coinbase) == coinbase

\* Write the coinbase solution.
WriteCoinbase(coinbase) ==
    IF coinbase = <<>> THEN <<0>> ELSE <<1>> \o coinbase

\* Block::write_le.
BlockWriteLE(b) ==
    <<0>> \o <<b.block_hash>> \o <<b.previous_hash>> \o <<b.header>>
        \o WriteTransactions(b.transactions) \o WriteCoinbase(b.coinbase) \o <<b.signature>>

\* The read_le of n bytes: the bytes and the rest, or the error of the reader.
ReadBytes(bs, n) ==
    IF Len(bs) < n THEN [ok |-> FALSE, value |-> <<>>, rest |-> bs]
    ELSE [ok |-> TRUE, value |-> SubSeq(bs, 1, n), rest |-> SubSeq(bs, n + 1, Len(bs))]

EndOfStream == BlockError("failed to fill whole buffer")

\* The read_le of the transactions.
ReadTransactions(bs) ==
    LET n == ReadBytes(bs, 1)
    IN  IF ~n.ok THEN n ELSE ReadBytes(n.rest, n.value[1])

\* A reading of the coinbase that takes every tag but 0 for a coinbase that follows.
ReadCoinbaseOfAnyTag(bs) ==
    LET tag == ReadBytes(bs, 1)
    IN  IF ~tag.ok THEN [ok |-> FALSE, err |-> EndOfStream.err, value |-> <<>>, rest |-> bs]
        ELSE IF tag.value[1] = 0
        THEN [ok |-> TRUE, err |-> "", value |-> <<>>, rest |-> tag.rest]
        ELSE LET c == ReadBytes(tag.rest, 1)
             IN  [ok |-> c.ok, err |-> IF c.ok THEN "" ELSE EndOfStream.err,
                  value |-> c.value, rest |-> c.rest]

\* Read the coinbase: tag 0 is None, tag 1 is followed by the coinbase.
ReadCoinbase(bs) ==
    LET tag == ReadBytes(bs, 1)
    IN  IF ~tag.ok THEN [ok |-> FALSE, err |-> EndOfStream.err, value |-> <<>>, rest |-> bs]
        ELSE IF tag.value[1] = 0
        THEN [ok |-> TRUE, err |-> "", value |-> <<>>, rest |-> tag.rest]
        ELSE IF tag.value[1] = 1
        THEN LET c == ReadBytes(tag.rest, 1)
             IN  [ok |-> c.ok, err |-> IF c.ok THEN "" ELSE EndOfStream.err,
                  value |-> c.value, rest |-> c.rest]
        ELSE [ok |-> FALSE, err |-> "Invalid coinbase variant", value |-> <<>>, rest |-> bs]

\* Block::read_le.
BlockReadLE(bs) ==
    LET version == ReadBytes(bs, 1)
    IN  IF ~version.ok THEN EndOfStream
        ELSE IF version.value[1] # 0 THEN BlockError("Invalid block version")
        ELSE
    LET parts == ReadBytes(version.rest, 3)
    IN  IF ~parts.ok THEN EndOfStream ELSE
    LET transactions == ReadTransactions(parts.rest)
    IN  IF ~transactions.ok THEN EndOfStream ELSE
    LET coinbase == ReadCoinbase(transactions.rest)
    IN  IF ~coinbase.ok THEN BlockError(coinbase.err) ELSE
    LET signature == ReadBytes(coinbase.rest, 1)
    IN  IF ~signature.ok THEN EndOfStream ELSE
    LET made == BlockFrom(parts.value[2], parts.value[3], transactions.value,
                          coinbase.value, signature.value[1])
    IN  IF ~made.ok THEN made
        ELSE IF parts.value[1] = made.block[1].block_hash THEN made
        ELSE BlockError("Mismatching block hash, possible data corruption")

InitBlock ==
    /\ ExecIdle /\ CodecIdle /\ ParseIdle /\ MemoryIdle /\ GroupIdle /\ LaterIdle
    /\ block \in Blocks
    /\ blockBytes = <<>>
    /\ blockRead = BlockError("")
    /\ bpc = "start"

\* expected.to_bytes_le().
BlockWrite ==
    /\ bpc = "start"
    /\ blockBytes' = BlockWriteLE(block)
    /\ bpc' = "written"
    /\ UNCHANGED <<block, blockRead, notBlock>>

\* Block::read_le(&expected_bytes[..]).
BlockRead ==
    /\ bpc = "written"
    /\ blockRead' = BlockReadLE(blockBytes)
    /\ bpc' = "read"
    /\ UNCHANGED <<block, blockBytes, notBlock>>

NextBlock == BlockWrite \/ BlockRead

SpecBlock == InitBlock /\ [][NextBlock]_vars

\* C19: the bytes of a valid block are read back as a block equal to it, with
\* or without a coinbase; an absent coinbase is written as the tag 0, a present
\* one as the tag 1 followed by the coinbase.
C19_BlockRoundTrip ==
    /\ bpc # "start" =>
          LET n == Len(block.transactions)
          IN  /\ SubSeq(blockBytes, 1, 5 + n) =
                    <<0, block.block_hash, block.previous_hash, block.header, n>>
                        \o block.transactions
              /\ block.coinbase = <<>> =>
                    SubSeq(blockBytes, 6 + n, Len(blockBytes)) = <<0, block.signature>>
              /\ block.coinbase # <<>> =>
                    SubSeq(blockBytes, 6 + n, Len(blockBytes)) =
                       <<1, block.coinbase[1], block.signature>>
    /\ bpc = "read" =>
          /\ blockRead.ok
          /\ blockRead.block = <<block>>

\* Blocks with and without a coinbase have been written and read back; the
\* coinbase of this one is itself the byte 0.
C19_Witness ==
    /\ bpc = "read" /\ blockRead.ok
    /\ block.coinbase = <<0>> /\ Len(block.transactions) = 2
    /\ blockRead.block[1].coinbase = <<0>>

(***************************************************************************)
(* Group * Scalar                                                          *)
(***************************************************************************)

\* The order of the group: its elements are 0 .. GroupOrder - 1 under
\* addition, and so are the scalars.
GroupOrder == 5

\* The number of bits of a scalar.
ScalarBits == 3

CircuitModes == {"Constant", "Public", "Private"}

\* Group::new(mode, value), Scalar::new(mode, value), Boolean::new(mode, value).
Circuit(mode, value) == [mode |-> mode, value |-> value]

\* The mode of the result of an operation on x and y.
ResultMode(x, y) ==
    IF x.mode = "Constant" /\ y.mode = "Constant" THEN "Constant" ELSE "Private"

\* Group::zero().
GroupZero == Circuit("Constant", 0)

\* &x + &y.
GroupAdd(x, y) == Circuit(ResultMode(x, y), (x.value + y.value) % GroupOrder)

\* x.double().
GroupDouble(x) == Circuit(ResultMode(x, x), (2 * x.value) % GroupOrder)

\* Group::ternary(bit, x, y).
GroupTernary(bit, x, y) ==
    IF bit.mode = "Constant" THEN (IF bit.value THEN x ELSE y)
    ELSE Circuit("Private", IF bit.value THEN x.value ELSE y.value)

\* The bits of n, the most significant first, in width bits.
RECURSIVE BitsBE(_, _)
BitsBE(n, width) ==
    IF width = 0 THEN <<>> ELSE BitsBE(n \div 2, width - 1) \o <<n % 2 = 1>>

\* scalar.to_bits_be().
ToBitsBE(scalar) ==
    LET bits == BitsBE(scalar.value, ScalarBits)
    IN  [i \in 1 .. ScalarBits |-> Circuit(scalar.mode, bits[i])]

\* The loop of mul_assign from its i-th bit on.
RECURSIVE DoubleAndAdd(_, _, _, _)
DoubleAndAdd(base, bits, i, output) ==
    IF i > Len(bits) THEN output
    ELSE LET doubled == GroupDouble(output)
         IN  DoubleAndAdd(base, bits, i + 1,
                          GroupTernary(bits[i], GroupAdd(base, doubled), doubled))

\* A mul_assign whose output starts from the base.
MulAssignBitsFromBase(base, bits) == DoubleAndAdd(base, bits, 1, base)

\* MulAssign<&[Boolean<E>]> for Group<E>.
MulAssignBits(base, bits) == DoubleAndAdd(base, bits, 1, GroupZero)

\* MulAssign<&Scalar<E>> for Group<E>.
MulAssignScalar(base, scalar) == MulAssignBits(base, ToBitsBE(scalar))

\* Mul<&Scalar<E>> for Group<E>.
MulScalar(base, scalar) == LET output == base IN MulAssignScalar(output, scalar)

\* candidate.eject_value().
Eject(x) == x.value

InitGroup ==
    /\ ExecIdle /\ CodecIdle /\ ParseIdle /\ MemoryIdle /\ BlockIdle /\ LaterIdle
    /\ factors \in { <<[a |-> Circuit(mode_a, base), b |-> Circuit(mode_b, scalar)]>> :
                        mode_a \in CircuitModes, mode_b \in CircuitModes,
                        base \in 0 .. GroupOrder - 1, scalar \in 0 .. GroupOrder - 1 }
    /\ product = <<>>
    /\ gpc = "start"

\* check_mul: a * b.
CheckMul ==
    /\ gpc = "start"
    /\ product' = <<[op |-> "mul", bits |-> <<>>,
                     candidate |-> MulScalar(factors[1].a, factors[1].b)]>>
    /\ gpc' = "done"
    /\ UNCHANGED <<factors, notGroup>>

\* check_mul_assign: candidate = a.clone(); candidate *= b.
CheckMulAssign ==
    /\ gpc = "start"
    /\ product' = <<[op |-> "mul_assign", bits |-> <<>>,
                     candidate |-> MulAssignScalar(factors[1].a, factors[1].b)]>>
    /\ gpc' = "done"
    /\ UNCHANGED <<factors, notGroup>>

\* a *= bits, for a slice of bits in the mode of b.
CheckMulAssignBits ==
    /\ gpc = "start"
    /\ \E values \in SeqsUpTo(BOOLEAN, ScalarBits) :
          LET bits == [i \in 1 .. Len(values) |-> Circuit(factors[1].b.mode, values[i])]
          IN  product' = <<[op |-> "mul_assign_bits", bits |-> values,
                            candidate |-> MulAssignBits(factors[1].a, bits)]>>
    /\ gpc' = "done"
    /\ UNCHANGED <<factors, notGroup>>

NextGroup == CheckMul \/ CheckMulAssign \/ CheckMulAssignBits

SpecGroup == InitGroup /\ [][NextGroup]_vars

\* The number whose bits, the most significant first, are values.
RECURSIVE BitsNumber(_)
BitsNumber(values) ==
    IF values = <<>> THEN 0
    ELSE 2 * BitsNumber(SubSeq(values, 1, Len(values) - 1))
            + (IF values[Len(values)] THEN 1 ELSE 0)

\* C20: in every combination of modes a * b and a *= b eject base * scalar, so
\* a * 0 and 0 * b are zero; a *= bits ejects base times the number the bits
\* spell, which is zero for the empty slice.
C20_MulEjectsBaseTimesScalar ==
    gpc = "done" =>
        LET a == factors[1].a
            b == factors[1].b
            p == product[1]
        IN  /\ p.op \in {"mul", "mul_assign"} =>
                  /\ Eject(p.candidate) = (a.value * b.value) % GroupOrder
                  /\ b.value = 0 => Eject(p.candidate) = 0
                  /\ a.value = 0 => Eject(p.candidate) = 0
            /\ p.op = "mul_assign_bits" =>
                  /\ Eject(p.candidate) = (a.value * BitsNumber(p.bits)) % GroupOrder
                  /\ p.bits = <<>> => Eject(p.candidate) = 0

\* A Private base times a Public scalar, neither zero, whose product is
\* not the base.
C20_Witness ==
    /\ gpc = "done" /\ product[1].op = "mul"
    /\ factors[1].a = Circuit("Private", 3) /\ factors[1].b = Circuit("Public", 4)
    /\ Eject(product[1].candidate) = 2

(***************************************************************************)
(* Boolean::to_bits_le                                                     *)
(***************************************************************************)

\* The circuit holds at most MaxBooleans Booleans.
MaxBooleans == 2

\* Count::is(num_constants, num_public, num_private, num_constraints).
CountIs(num_constants, num_public, num_private, num_constraints) ==
    [constants |-> num_constants, public |-> num_public,
     private |-> num_private, constraints |-> num_constraints]

\* The counts of the circuit after Boolean::new(mode, _): a constant, or a
\* public or private variable with the constraint that it is a bit.
Allocate(count, mode) ==
    IF mode = "Constant" THEN [count EXCEPT !.constants = @ + 1]
    ELSE IF mode = "Public"
    THEN [count EXCEPT !.public = @ + 1, !.constraints = @ + 1]
    ELSE [count EXCEPT !.private = @ + 1, !.constraints = @ + 1]

\* A to_bits_le that allocates its bit anew.
ToBitsLEAllocating(count, self) ==
    [count |-> Allocate(count, self.mode), bits |-> <<Circuit(self.mode, self.value)>>]

\* ToBitsLE for &Boolean<E>: vec![(*self).clone()]; the counts of the circuit
\* are those before the call.
ToBitsLE(count, self) == [count |-> count, bits |-> <<self>>]

\* Metadata::count of ToBitsLE for Boolean.
ToBitsLECount == CountIs(0, 0, 0, 0)

\* Metadata::output_type of ToBitsLE for Boolean.
ToBitsLEOutputType(self) == <<self.mode>>

\* The counts added between two counts of the circuit: those of the scope.
InScope(before, after) ==
    CountIs(after.constants - before.constants, after.public - before.public,
            after.private - before.private, after.constraints - before.constraints)

InitBoolean ==
    /\ ExecIdle /\ CodecIdle /\ ParseIdle /\ MemoryIdle /\ BlockIdle /\ GroupIdle
    /\ RecordIdle /\ FeeIdle /\ parked = <<>> /\ supplied = <<>>
    /\ circuit = [count |-> CountIs(0, 0, 0, 0), booleans |-> <<>>]
    /\ bitsLE = <<>>

\* Boolean::<Circuit>::new(mode, value).
BooleanNew ==
    /\ bitsLE = <<>>
    /\ Len(circuit.booleans) < MaxBooleans
    /\ \E mode \in CircuitModes, value \in BOOLEAN :
          circuit' = [count |-> Allocate(circuit.count, mode),
                      booleans |-> Append(circuit.booleans, Circuit(mode, value))]
    /\ UNCHANGED <<bitsLE, notBoolean>>

\* check_to_bits_le: candidate.to_bits_le() in a scope of the circuit.
CheckToBitsLE ==
    /\ bitsLE = <<>>
    /\ \E i \in 1 .. Len(circuit.booleans) :
          LET candidate == circuit.booleans[i]
              returned == ToBitsLE(circuit.count, candidate)
          IN  /\ bitsLE' = <<[candidate |-> candidate, result |-> returned.bits,
                              scope |-> InScope(circuit.count, returned.count)]>>
              /\ circuit' = [circuit EXCEPT !.count = returned.count]
    /\ UNCHANGED notBoolean

NextBoolean == BooleanNew \/ CheckToBitsLE

SpecBoolean == InitBoolean /\ [][NextBoolean]_vars

\* C21: to_bits_le of a Boolean of any mode and value returns exactly one bit,
\* which ejects the value of the Boolean, and adds no constant, no public or
\* private variable and no constraint to the circuit.
C21_ToBitsLEOneBit ==
    bitsLE # <<>> =>
        LET b == bitsLE[1]
        IN  /\ Len(b.result) = 1
            /\ Eject(b.result[1]) = b.candidate.value
            /\ b.scope = ToBitsLECount
            /\ <<b.result[1].mode>> = ToBitsLEOutputType(b.candidate)

\* The bits of a Private true, allocated after a Public false.
C21_Witness ==
    /\ bitsLE # <<>>
    /\ bitsLE[1].candidate = Circuit("Private", TRUE)
    /\ circuit.booleans = <<Circuit("Public", FALSE), Circuit("Private", TRUE)>>
    /\ circuit.count = CountIs(0, 1, 1, 2)
    /\ Eject(bitsLE[1].result[1])

(***************************************************************************)
(* The order of the steps of a call                                        *)
(***************************************************************************)

\* The events of call c that are logged before position i.
Before(c, e, i) == {j \in Indices(c, e) : j < i}

\* The call entered by the call instruction logged at position i.
Entered(i) == log[i + 1].c

\* C22: in a call of evaluate_function or evaluate_closure the Register File
\* is built, with the caller and the tvk set on it, before any input is
\* stored; the inputs are stored in declaration order, all of them before the
\* first instruction; the instructions run one at a time in program order,
\* the whole of a nested call between the call instruction and the next step
\* of its caller; the outputs are loaded after the last instruction.
C22_StepsInOrder ==
    \A k \in FrameIndices :
       LET f == stack[k]
           c == f.id
           body == Indices(c, "eval") \cup Indices(c, "call")
       IN  f.kind \in EvaluateKinds =>
             /\ \A i \in Indices(c, "store") :
                   /\ Before(c, "registers", i) # {}
                   /\ f.rcaller = <<f.caller>> /\ f.rtvk = <<f.tvk>>
                   /\ log[i].n = Cardinality(Before(c, "store", i)) + 1
                   /\ \A j \in Before(c, "store", i) : log[j].ok
             /\ \A i \in body :
                   /\ Cardinality({j \in Before(c, "store", i) : log[j].ok})
                         = Len(Definition(f).inputs)
                   /\ \A j \in Indices(c, "store") : j < i
                   /\ log[i].n = Cardinality(Before(c, "eval", i)) + 1
                   /\ \A j \in Before(c, "eval", i) : log[j].ok
             /\ \A i \in Indices(c, "call") :
                   /\ log[i + 1].e = "enter" /\ log[i + 1].n = c
                   /\ \A j \in EventsOf(Entered(i)) : j > i
                   /\ \A j \in EventsOf(c) :
                         j > i => /\ Indices(Entered(i), "return") # {}
                                  /\ \A m \in EventsOf(Entered(i)) : m < j
             /\ \A i \in Indices(c, "outputs") :
                   /\ Cardinality(Before(c, "eval", i)) = Len(Definition(f).instructions)
                   /\ \A j \in body : j < i /\ log[j].ok

\* A function with two nested calls of functions has loaded its outputs.
C22_Witness ==
    /\ stack # <<>> /\ top.id = 1 /\ top.kind = "evaluate_function" /\ top.fn = "F"
    /\ top.pc = "response"
    /\ Cardinality(Indices(1, "call")) = 2 /\ Cardinality(Indices(1, "store")) = 2

(***************************************************************************)
(* Two transactions on one stack                                           *)
(***************************************************************************)

\* The calls of evaluate_function the two transactions choose from: the
\* stack, the mode and the Requests of the Authorization.
ConcurrentCalls ==
    { [self |-> "p2.aleo", mode |-> "Evaluate",
       queue |-> <<Sign("p2.aleo", "G", <<FieldVal(1)>>, 1),
                   Sign("p3.aleo", "H", <<FieldVal(1)>>, 2)>>],
      [self |-> "p2.aleo", mode |-> "Execute",
       queue |-> <<Sign("p2.aleo", "G", <<FieldVal(1)>>, 3),
                   Sign("p3.aleo", "H", <<FieldVal(1)>>, 4)>>],
      [self |-> "p1.aleo", mode |-> "Evaluate",
       queue |-> <<Sign("p1.aleo", "K", <<FieldVal(1)>>, 5)>>],
      [self |-> "p3.aleo", mode |-> "Execute",
       queue |-> <<Sign("p3.aleo", "H", <<FieldVal(0)>>, 6)>>],
      [self |-> "p3.aleo", mode |-> "Evaluate", queue |-> <<>>] }

\* What a transaction owns besides its Authorization.
Transaction(s, r, l, q, h) ==
    [stack |-> s, result |-> r, log |-> l, retrieved |-> q, held |-> h]

\* Transaction 1 holds the Authorization at 1 and transaction 2 the one at 2,
\* in the memory they share; transaction 1 runs first.
InitConcurrent ==
    /\ CodecIdle /\ ParseIdle /\ MemoryIdle /\ BlockIdle /\ GroupIdle
    /\ BooleanIdle /\ RecordIdle /\ FeeIdle /\ supplied = <<>>
    /\ \E first \in ConcurrentCalls, second \in ConcurrentCalls :
          /\ auths = <<first.queue, second.queue>>
          /\ parked = [running |-> 1, calls |-> <<first, second>>,
                       other |-> Transaction(<<>>, <<>>, <<>>, <<>>, 2),
                       alone |-> FALSE, together |-> <<>>]
    /\ held = 1 /\ recorded = <<>> /\ authorized = FALSE /\ tampered = FALSE
    /\ stack = <<>> /\ result = <<>> /\ log = <<>> /\ retrieved = <<>>
    /\ signed = <<>> /\ nonce = 7

\* The running transaction calls evaluate_function.
StartTransaction ==
    /\ result = <<>>
    /\ CallEvaluateFunctionOn(parked.calls[parked.running].self,
                              parked.calls[parked.running].mode)

\* The call of the running transaction returns.
ReturnTransaction ==
    /\ Len(stack) = 1 /\ top.pc = "return"
    /\ log' = Append(log, Ev(top.id, "return", top.ret.ok, 0, top.ret.err))
    /\ stack' = <<>>
    /\ result' = <<Outcome(top.kind, top.cs.mode, top.ret, top.pre, auths[held])>>
    /\ UNCHANGED <<auths, held, recorded, authorized, tampered, retrieved, signed, nonce,
                   notExec>>

\* The scheduler runs the other transaction.
SwitchTransaction ==
    /\ ~parked.alone
    /\ parked' = [parked EXCEPT !.running = 3 - @,
                                !.other = Transaction(stack, result, log, retrieved, held)]
    /\ stack' = parked.other.stack
    /\ result' = parked.other.result
    /\ log' = parked.other.log
    /\ retrieved' = parked.other.retrieved
    /\ held' = parked.other.held
    /\ UNCHANGED <<auths, recorded, authorized, tampered, signed, nonce,
                   codecVars, parseVars, memoryVars, blockVars, groupVars,
                   booleanVars, recordVars, feeVars, supplied>>

\* Both transactions have returned: the call of transaction 1 is made again,
\* on a memory that holds its Authorization only.
RunAlone ==
    /\ ~parked.alone /\ parked.running = 2
    /\ result # <<>> /\ parked.other.result # <<>>
    /\ parked' = [parked EXCEPT !.running = 1, !.alone = TRUE,
                                !.together = <<parked.other.result[1], result[1]>>,
                                !.other = Transaction(<<>>, <<>>, <<>>, <<>>, 2)]
    /\ auths' = <<parked.calls[1].queue, <<>> >>
    /\ held' = 1
    /\ stack' = <<>> /\ result' = <<>> /\ log' = <<>> /\ retrieved' = <<>>
    /\ UNCHANGED <<recorded, authorized, tampered, signed, nonce,
                   codecVars, parseVars, memoryVars, blockVars, groupVars,
                   booleanVars, recordVars, feeVars, supplied>>

NextConcurrent ==
    \/ StartTransaction
    \/ SwitchTransaction
    \/ RunAlone
    \/ RetrieveRequest
    \/ CheckNetwork
    \/ LookupFunction
    \/ CheckInputCount
    \/ InitializeRegisters
    \/ VerifyRequest
    \/ StoreInputs
    \/ EvaluateInstruction
    \/ CallEvaluate
    \/ ReturnToCaller
    \/ LoadOutputs
    \/ ComputeResponse
    \/ ClosureCheckInputCount
    \/ ClosureInitializeRegisters
    \/ ReturnTransaction

SpecConcurrent == InitConcurrent /\ [][NextConcurrent]_vars

\* The places of the shared memory a transaction reaches: its Authorization
\* and the replicas its frames run on.
Reaches(t) == {t.held} \cup {t.stack[k].cs.auth : k \in 1 .. Len(t.stack)}

\* The step is one of the running transaction, not one of the scheduler.
OwnStep == parked'.running = parked.running /\ parked'.alone = parked.alone

AlteredBytes == {0, 1, 2, 3}

\* The bytes of a block with one byte replaced, with the first bytes only, or
\* without the first byte.
AlteredStreams(b) ==
    LET bs == BlockWriteLE(b)
    IN  {[bs EXCEPT ![i] = v] : i \in 1 .. Len(bs), v \in AlteredBytes}
           \cup {SubSeq(bs, 1, n) : n \in 0 .. Len(bs)}
           \cup {SubSeq(bs, 2, Len(bs))}

InitBlockDecode ==
    /\ ExecIdle /\ CodecIdle /\ ParseIdle /\ MemoryIdle /\ GroupIdle /\ LaterIdle
    /\ block \in Blocks
    /\ blockBytes \in AlteredStreams(block)
    /\ blockRead = BlockError("")
    /\ bpc = "written"

SpecBlockDecode == InitBlockDecode /\ [][BlockRead]_vars

\* The position of the coinbase tag in a stream, after the transactions.
TagPosition(bs) == 6 + bs[5]

C24_WitnessMismatch ==
    /\ bpc = "read"
    /\ blockRead.err = "Mismatching block hash, possible data corruption"
    /\ blockBytes # BlockWriteLE(block)

\* The steps of evaluate_function that follow the check of the network id.
AfterNetwork(c) ==
    Indices(c, "lookup") \cup Indices(c, "arity") \cup BodyEvents(c)
        \cup Indices(c, "response")

\* C25: an evaluate_function whose Request carries a network id other than
\* that of the network fails with an error that names the expected and the
\* found id; it looks up no function, verifies no Request, builds no Register
\* File, stores no input, evaluates no instruction and returns no Response.
C25_NetworkMismatchRejected ==
    /\ \A k \in FrameIndices :
          LET f == stack[k]
          IN  (/\ f.kind = "evaluate_function" /\ f.req # <<>>
               /\ f.req[1].network_id # NetworkID /\ f.pc # "network") =>
                 /\ f.pc = "return"
                 /\ f.ret = [ok |-> FALSE, outputs |-> <<>>, response |-> <<>>,
                             err |-> "Network ID mismatch. Expected " \o ToString(NetworkID)
                                        \o ", but found " \o ToString(f.req[1].network_id)]
                 /\ f.fn = "" /\ ~f.hasRegs /\ f.regs = <<>>
                 /\ AfterNetwork(f.id) = {}
                 /\ \E i \in Indices(f.id, "network") :
                       ~log[i].ok /\ \A j \in EventsOf(f.id) : j <= i
    /\ (/\ result # <<>> /\ result[1].op = "evaluate_function"
        /\ result[1].pre # <<>> /\ result[1].pre[1].network_id # NetworkID
        /\ result[1].mode \in {"Evaluate", "Execute"}) =>
          /\ ~result[1].ret.ok
          /\ result[1].ret.response = <<>>
          /\ AfterNetwork(1) = {}

\* A nested evaluate_function has failed on a Request of another network,
\* after its caller ran on a Request of this one.
C25_Witness ==
    /\ Len(stack) >= 2 /\ top.kind = "evaluate_function" /\ top.pc = "return"
    /\ top.req # <<>> /\ top.req[1].network_id = NetworkID + 1
    /\ stack[1].req[1].network_id = NetworkID

(***************************************************************************)
(* Stack::authorize on the inputs supplied by its caller                   *)
(***************************************************************************)

\* The calls of authorize: a stack, a name and up to one input more than the
\* function declares.
AuthorizeCalls ==
    UNION { { [self |-> self, name |-> name, inputs |-> inputs] :
                self \in {Functions[name].program, "p1.aleo"},
                inputs \in SeqsUpTo(Values, Len(Functions[name].inputs) + 1) } :
            name \in FunctionNames }

InitAuthorize ==
    /\ ExecIdle
    /\ CodecIdle /\ ParseIdle /\ MemoryIdle /\ BlockIdle /\ GroupIdle
    /\ BooleanIdle /\ RecordIdle /\ FeeIdle /\ parked = <<>>
    /\ supplied \in AuthorizeCalls

\* authorize is called on the inputs supplied.
AuthorizeSupplied == Authorize(supplied.self, supplied.name, supplied.inputs)

NextAuthorize ==
    \/ AuthorizeSupplied
    \/ ExecutePrelude
    \/ ExecuteCall
    \/ EvaluateInstruction
    \/ CallEvaluate
    \/ ClosureCheckInputCount
    \/ ClosureInitializeRegisters
    \/ StoreInputs
    \/ ReturnToCaller
    \/ LoadOutputs
    \/ ComputeResponse
    \/ ReturnFromAuthorize

SpecAuthorize == InitAuthorize /\ [][NextAuthorize]_vars

SignError == "Failed to sign the request"

\* The outcome of the input count check of authorize on a call.
CountCheckOf(call) ==
    AuthorizeInputCountCheck(call.name, call.self, Functions[call.name], call.inputs)

\* C26: the input count check of authorize has the same outcome whatever the
\* number of inputs supplied, and it passes; an authorize with more or fewer
\* inputs than the function declares is refused by Request::sign and by
\* nothing before it.
C26_CountCheckIgnoresSupplied ==
    /\ \A call \in AuthorizeCalls : \A other \in AuthorizeCalls :
          (call.name = other.name /\ call.self = other.self) =>
             CountCheckOf(call) = CountCheckOf(other)
    /\ (authorized /\ HasFunction(supplied.self, supplied.name)) =>
          /\ CountCheckOf(supplied) = ""
          /\ Len(supplied.inputs) # Len(Functions[supplied.name].inputs) =>
                /\ stack = <<>>
                /\ result = <<Outcome("authorize", "Authorize", Failure(SignError),
                                      <<>>, <<>>)>>
          /\ (result # <<>> /\ ~result[1].ret.ok /\ result[1].ret.err # SignError) =>
                /\ Len(supplied.inputs) = Len(Functions[supplied.name].inputs)
                /\ signed # <<>> \/ log # <<>>

\* authorize has refused a call of F with three inputs of the right type.
C26_Witness ==
    /\ authorized /\ supplied.name = "F" /\ supplied.self = "p1.aleo"
    /\ supplied.inputs = <<FieldVal(1), FieldVal(1), FieldVal(1)>>
    /\ result # <<>> /\ result[1].ret.err = SignError

(***************************************************************************)
(* EncryptedRecord: encrypt and decrypt                                    *)
(***************************************************************************)

\* Payload::default().
DefaultPayload == 0

\* The program id of the records that are meant as dummies.
DummyProgram == 0

\* u64::to_bytes_le and u64::read_le.
RECURSIVE BytesLE(_, _)
BytesLE(n, width) ==
    IF width = 0 THEN <<>> ELSE <<n % 256>> \o BytesLE(n \div 256, width - 1)

U64Bytes(n) == BytesLE(n, 8)

RECURSIVE U64Value(_)
U64Value(bs) == IF bs = <<>> THEN 0 ELSE bs[1] + 256 * U64Value(Tail(bs))

\* The records under test: the owner is known by its view key.
Records ==
    { [program_id |-> p, owner |-> o, is_dummy |-> d, value |-> v, payload |-> y,
       serial_number_nonce |-> s, commitment_randomness |-> c] :
        p \in {DummyProgram, 1, 2}, o \in {1}, d \in BOOLEAN, v \in {0, 1, 256},
        y \in {DefaultPayload, 1}, s \in {0, 1}, c \in {0, 1} }

\* The plaintext of encrypt: program id, value, payload, serial number nonce
\* and commitment randomness.
RecordPlaintext(r) ==
    <<r.program_id>> \o U64Bytes(r.value) \o <<r.payload>>
        \o <<r.serial_number_nonce>> \o <<r.commitment_randomness>>

\* The encryption scheme of the account: the randomness, then every byte
\* shifted by the key and the randomness.
SchemeEncrypt(key, randomness, plaintext) ==
    <<randomness>> \o [i \in 1 .. Len(plaintext) |-> (plaintext[i] + key + randomness) % 256]

SchemeDecrypt(key, ciphertext) ==
    [i \in 1 .. Len(ciphertext) - 1 |-> (ciphertext[i + 1] + 512 - key - ciphertext[1]) % 256]

\* EncryptedRecord::encrypt.
RecordEncrypt(r, randomness) ==
    [ciphertext |-> SchemeEncrypt(r.owner, randomness, RecordPlaintext(r))]

\* An is_dummy that asks for the program of the dummies as well.
IsDummyOfDummyProgram(program_id, value, payload) ==
    (value = 0) /\ (payload = DefaultPayload) /\ (program_id = DummyProgram)

\* "Determine if the record is a dummy".
IsDummy(program_id, value, payload) ==
    LET dummy_program == program_id
    IN  (value = 0) /\ (payload = DefaultPayload) /\ (program_id = dummy_program)

\* EncryptedRecord::decrypt.
RecordDecrypt(encrypted, account_view_key) ==
    LET plaintext == SchemeDecrypt(account_view_key, encrypted.ciphertext)
        program_id == plaintext[1]
        value == U64Value(SubSeq(plaintext, 2, 9))
        payload == plaintext[10]
    IN  [program_id |-> program_id, owner |-> account_view_key,
         is_dummy |-> IsDummy(program_id, value, payload),
         value |-> value, payload |-> payload,
         serial_number_nonce |-> plaintext[11], commitment_randomness |-> plaintext[12]]

InitRecord ==
    /\ ExecIdle /\ CodecIdle /\ ParseIdle /\ MemoryIdle /\ BlockIdle /\ GroupIdle
    /\ BooleanIdle /\ FeeIdle /\ parked = <<>> /\ supplied = <<>>
    /\ record \in {[plain |-> r, encrypted |-> <<>>] : r \in Records}
    /\ recordOut = <<>>

\* EncryptedRecord::encrypt(&record, rng).
CallEncrypt ==
    /\ record.encrypted = <<>>
    /\ \E randomness \in {3, 250} :
          record' = [record EXCEPT !.encrypted = <<RecordEncrypt(record.plain, randomness)>>]
    /\ UNCHANGED <<recordOut, notRecord>>

\* encrypted.decrypt(&account_view_key), with the view key of the owner.
CallDecrypt ==
    /\ record.encrypted # <<>> /\ recordOut = <<>>
    /\ recordOut' = <<RecordDecrypt(record.encrypted[1], record.plain.owner)>>
    /\ UNCHANGED <<record, notRecord>>

NextRecord == CallEncrypt \/ CallDecrypt

SpecRecord == InitRecord /\ [][NextRecord]_vars

\* C27: decrypt gives back the program id, the value and the payload that
\* were encrypted, and marks the record as a dummy exactly when the value is 0
\* and the payload is the default payload, whatever the program id is.
C27_DummyIgnoresProgram ==
    recordOut # <<>> =>
        LET r == recordOut[1]
        IN  /\ r.program_id = record.plain.program_id
            /\ r.value = record.plain.value
            /\ r.payload = record.plain.payload
            /\ r.is_dummy <=> (r.value = 0 /\ r.payload = DefaultPayload)
            /\ \A p \in {DummyProgram, 1, 2} :
                  RecordDecrypt(RecordEncrypt([record.plain EXCEPT !.program_id = p], 3),
                                record.plain.owner).is_dummy = r.is_dummy

\* A record of value 0 and default payload, of a program that is not the one
\* of the dummies and not marked as a dummy, has been decrypted as a dummy.
C27_Witness ==
    /\ recordOut # <<>> /\ recordOut[1].is_dummy
    /\ record.plain.program_id = 2 /\ ~record.plain.is_dummy
    /\ record.encrypted[1].ciphertext[1] = 250

(***************************************************************************)
(* Fee::amount and Fee::is_zero                                            *)
(***************************************************************************)

\* The fee transition has at most MaxFeeInputs inputs.
MaxFeeInputs == 3

\* Some(Plaintext::Literal(Literal::U64(n), _)) and the other plaintexts.
LiteralU64(n) == <<[kind |-> "Literal", type |-> "U64", v |-> n]>>

LiteralField(n) == <<[kind |-> "Literal", type |-> "Field", v |-> n]>>

StructPlaintext == <<[kind |-> "Struct", type |-> "", v |-> 0]>>

\* Input::Public(_, plaintext), Input::Constant(_, plaintext), Input::Private(_, _)
\* and Input::Record(_, _): plaintext is <<>> for None.
FeeInput(variant, plaintext) == [variant |-> variant, plaintext |-> plaintext]

FeeInputs ==
    {FeeInput("Public", p) : p \in {<<>>, LiteralU64(0), LiteralU64(5), LiteralField(0),
                                    StructPlaintext}}
        \cup {FeeInput("Constant", LiteralU64(0)), FeeInput("Private", <<>>),
              FeeInput("Record", <<>>)}

FeeError(msg) == [ok |-> FALSE, value |-> 0, err |-> msg]

\* An amount read from the first input of the transition.
FeeAmountOfFirstInput(self) ==
    IF /\ Len(self.inputs) >= 1
       /\ self.inputs[1].variant = "Public"
       /\ self.inputs[1].plaintext # <<>>
       /\ self.inputs[1].plaintext[1].kind = "Literal"
       /\ self.inputs[1].plaintext[1].type = "U64"
    THEN [ok |-> TRUE, value |-> self.inputs[1].plaintext[1].v, err |-> ""]
    ELSE FeeError("Failed to retrieve the fee (in microcredits) from the fee transition")

\* Fee::amount: self.transition.inputs().get(1) is the second input.
FeeAmount(self) ==
    IF /\ Len(self.inputs) >= 2
       /\ self.inputs[2].variant = "Public"
       /\ self.inputs[2].plaintext # <<>>
       /\ self.inputs[2].plaintext[1].kind = "Literal"
       /\ self.inputs[2].plaintext[1].type = "U64"
    THEN [ok |-> TRUE, value |-> self.inputs[2].plaintext[1].v, err |-> ""]
    ELSE FeeError("Failed to retrieve the fee (in microcredits) from the fee transition")

\* Fee::is_zero: self.amount().map(|amount| amount.is_zero()).
FeeIsZero(self) ==
    LET amount == FeeAmount(self)
    IN  IF amount.ok THEN [ok |-> TRUE, value |-> (amount.value = 0), err |-> ""]
        ELSE [ok |-> FALSE, value |-> FALSE, err |-> amount.err]

InitFee ==
    /\ ExecIdle /\ CodecIdle /\ ParseIdle /\ MemoryIdle /\ BlockIdle /\ GroupIdle
    /\ BooleanIdle /\ RecordIdle /\ parked = <<>> /\ supplied = <<>>
    /\ fee \in {[inputs |-> i] : i \in SeqsUpTo(FeeInputs, MaxFeeInputs)}
    /\ feeOut = [amount |-> <<>>, is_zero |-> <<>>]

\* fee.amount().
CallAmount ==
    /\ feeOut.amount = <<>>
    /\ feeOut' = [feeOut EXCEPT !.amount = <<FeeAmount(fee)>>]
    /\ UNCHANGED <<fee, notFee>>

\* fee.is_zero().
CallIsZero ==
    /\ feeOut.is_zero = <<>>
    /\ feeOut' = [feeOut EXCEPT !.is_zero = <<FeeIsZero(fee)>>]
    /\ UNCHANGED <<fee, notFee>>

NextFee == CallAmount \/ CallIsZero

SpecFee == InitFee /\ [][NextFee]_vars

\* The second input of the fee transition is public and carries a U64 literal.
CarriesAmount(self) ==
    /\ Len(self.inputs) >= 2
    /\ \E n \in {0, 5} : self.inputs[2] = FeeInput("Public", LiteralU64(n))

\* C28: amount returns the U64 literal of the second input of the fee
\* transition when that input is public and carries such a literal, and fails
\* otherwise; is_zero fails exactly when amount fails and else tells whether
\* the amount is 0.
C28_AmountOfSecondInput ==
    /\ feeOut.amount # <<>> =>
          LET a == feeOut.amount[1]
          IN  /\ a.ok <=> CarriesAmount(fee)
              /\ a.ok => a.value = fee.inputs[2].plaintext[1].v
              /\ ~a.ok => a.err # ""
    /\ feeOut.is_zero # <<>> =>
          LET z == feeOut.is_zero[1]
          IN  /\ z.ok <=> CarriesAmount(fee)
              /\ z.ok => (z.value <=> fee.inputs[2] = FeeInput("Public", LiteralU64(0)))
              /\ feeOut.amount # <<>> =>
                    /\ z.ok <=> feeOut.amount[1].ok
                    /\ ~z.ok => z.err = feeOut.amount[1].err

\* The amount of a fee whose first input carries 0 and whose second carries 5
\* has been returned, and is_zero has answered false.
C28_Witness ==
    /\ feeOut.amount # <<>> /\ feeOut.is_zero # <<>>
    /\ fee.inputs = <<FeeInput("Public", LiteralU64(0)), FeeInput("Public", LiteralU64(5))>>
    /\ feeOut.amount[1].value = 5 /\ feeOut.is_zero[1].ok /\ ~feeOut.is_zero[1].value

(***************************************************************************)
(* The bytes of an EncryptedRecord                                         *)
(***************************************************************************)

\* The short ciphertexts have at most MaxCiphertext bytes.
MaxCiphertext == 3

\* u16::MAX.
U16Max == 65535

\* The ciphertext of n bytes used for the long ciphertexts.
LongCiphertext(n) == [i \in 1 .. n |-> (7 * i) % 256]

Ciphertexts ==
    SeqsUpTo({0, 255}, MaxCiphertext)
        \cup {LongCiphertext(n) : n \in {255, 256, 257, U16Max, U16Max + 1, U16Max + 2}}

\* A write_le whose prefix is one byte.
RecordWriteLEWithByteLength(self) == <<Len(self.ciphertext) % 256>> \o self.ciphertext

\* ToBytes for EncryptedRecord: (self.ciphertext.len() as u16), then the bytes.
RecordWriteLE(self) == U16Bytes(Len(self.ciphertext)) \o self.ciphertext

RecordReadError == [ok |-> FALSE, ciphertext |-> <<>>, err |-> "failed to fill whole buffer"]

\* FromBytes for EncryptedRecord: the u16, then that many times one u8.
RecordReadLE(bs) ==
    IF Len(bs) < 2 THEN RecordReadError
    ELSE LET ciphertext_len == U16Value(bs)
         IN  IF Len(bs) < 2 + ciphertext_len THEN RecordReadError
             ELSE [ok |-> TRUE, ciphertext |-> SubSeq(bs, 3, 2 + ciphertext_len), err |-> ""]

\* The reader is given the bytes written, or all but the last one or two.
InitRecordBytes ==
    /\ ExecIdle /\ CodecIdle /\ ParseIdle /\ MemoryIdle /\ BlockIdle /\ GroupIdle
    /\ BooleanIdle /\ FeeIdle /\ parked = <<>> /\ supplied = <<>>
    /\ record \in {[ciphertext |-> c, stream |-> <<>>, missing |-> m] :
                      c \in Ciphertexts, m \in 0 .. 2}
    /\ recordOut = <<>>

\* encrypted_record.write_le(&mut writer).
RecordWrite ==
    /\ record.stream = <<>>
    /\ record' = [record EXCEPT !.stream = <<RecordWriteLE(record)>>]
    /\ UNCHANGED <<recordOut, notRecord>>

\* EncryptedRecord::read_le(reader).
RecordRead ==
    /\ record.stream # <<>> /\ recordOut = <<>>
    /\ LET bs == record.stream[1]
       IN  recordOut' =
              <<RecordReadLE(SubSeq(bs, 1, IF Len(bs) >= record.missing
                                           THEN Len(bs) - record.missing ELSE 0))>>
    /\ UNCHANGED <<record, notRecord>>

NextRecordBytes == RecordWrite \/ RecordRead

SpecRecordBytes == InitRecordBytes /\ [][NextRecordBytes]_vars

\* C29: write_le emits the length of the ciphertext modulo 2^16 in two bytes,
\* the low one first, and then the ciphertext; read_le of these bytes gives
\* back every ciphertext of at most 65535 bytes, and fails on a stream that
\* ends before the announced number of bytes.
C29_RecordBytesRoundTrip ==
    /\ record.stream # <<>> =>
          LET bs == record.stream[1]
              n == Len(record.ciphertext)
          IN  /\ Len(bs) = n + 2
              /\ bs[1] = (n % (U16Max + 1)) % 256
              /\ bs[2] = (n % (U16Max + 1)) \div 256
              /\ SubSeq(bs, 3, Len(bs)) = record.ciphertext
    /\ (recordOut # <<>> /\ Len(record.ciphertext) <= U16Max) =>
          /\ record.missing = 0 =>
                recordOut[1].ok /\ recordOut[1].ciphertext = record.ciphertext
          /\ record.missing # 0 =>
                ~recordOut[1].ok /\ recordOut[1].ciphertext = <<>>
    /\ (recordOut # <<>> /\ recordOut[1].ok) =>
          Len(recordOut[1].ciphertext) = Len(record.ciphertext) % (U16Max + 1)

\* A ciphertext of 256 bytes has been written with the prefix 0, 1 and read
\* back.
C29_Witness ==
    /\ recordOut # <<>> /\ recordOut[1].ok /\ record.missing = 0
    /\ Len(record.ciphertext) = 256
    /\ record.stream[1][1] = 0 /\ record.stream[1][2] = 1
    /\ recordOut[1].ciphertext = record.ciphertext

(***************************************************************************)
(* evaluate_closure and the Authorization                                  *)
(***************************************************************************)

\* The events of taking, peeking, checking or verifying a Request.
RequestEvents == {"next", "peek_next", "none", "network", "lookup", "verify"}

\* The evaluate_closure frames of the stack.
ClosureFrames == {k \in FrameIndices : stack[k].kind = "evaluate_closure"}

\* C30: evaluate_closure takes, peeks and verifies no Request: while a call
\* of evaluate_closure runs its own steps the Authorization of its call stack
\* holds the Requests it held at the call, in the same order, the call holds
\* no Request and has logged no retrieval or verification, and when the call
\* has returned, with or without an error and in every mode, the
\* Authorization is the one it was given.
C30_ClosureLeavesAuthorization ==
    /\ \A k \in ClosureFrames :
          LET f == stack[k]
          IN  /\ f.req = <<>>
              /\ f.cs.auth = f.entryAuth
              /\ \A i \in EventsOf(f.id) : log[i].e \notin RequestEvents
              /\ k = Len(stack) => auths[f.cs.auth] = f.pre
    /\ (result # <<>> /\ result[1].op = "evaluate_closure") =>
          /\ result[1].post = result[1].pre
          /\ retrieved = <<>>
          /\ \A i \in 1 .. Len(log) : log[i].e \notin RequestEvents

\* A call of evaluate_closure in Execute mode has failed over an Authorization
\* that holds a Request.
C30_Witness ==
    /\ result # <<>> /\ result[1].op = "evaluate_closure"
    /\ result[1].mode = "Execute" /\ ~result[1].ret.ok
    /\ result[1].pre # <<>> /\ result[1].post = result[1].pre

\* A call of evaluate_closure in Evaluate mode has succeeded over an
\* Authorization that holds a Request.
C30_WitnessSuccess ==
    /\ result # <<>> /\ result[1].op = "evaluate_closure"
    /\ result[1].mode = "Evaluate" /\ result[1].ret.ok
    /\ result[1].pre # <<>> /\ result[1].post = result[1].pre

====
